---- MODULE Spec2Model ----
(***************************************************************************)
(* TTtalker: gateways ("ttclouds") for TreeTalker sensor nodes.            *)
(*                                                                         *)
(* The model follows src/ttcloud/ttt: the network coordinator              *)
(* (network_coordinator.py), the local decision engine                     *)
(* (local_decision_engine.py) with its data policy (policy.py), the radio  *)
(* bridge's receive path (radio_communication_interface.py) and the packet *)
(* codec (packets.py).  Processes talk over an MQTT broker; every paho     *)
(* client runs its on_message callbacks one at a time on its network       *)
(* thread, so a handler is one atomic action.  A handler that raises ends  *)
(* that thread (paho re-raises callback exceptions): the process goes on   *)
(* sleeping in its main loop and handles nothing more.                     *)
(***************************************************************************)
EXTENDS Integers, Sequences, FiniteSets, TLC

(* ------------------------------------------------------------------ *)
(* Bounds of the model                                                 *)
(* ------------------------------------------------------------------ *)
NumGateways == 2
NumTalkers == 2
MaxPackets == 2
MaxBaselines == 1
MaxSeed == 3
MaxCycles == 2
MaxDrain == 9

(* ------------------------------------------------------------------ *)
(* Program constants                                                   *)
(* ------------------------------------------------------------------ *)
MULTICAST == 1246382666
CLOUD_HELO_COMMAND == 190
SLEEP_TIME_MIN == 300
SLEEP_TIME_DEFAULT == 600
TIME_SLOT_LENGTH == 60
CRITICAL_TEMPERATURE == 50
CONFIDENCE == 3
RDE == 1

(* Addresses: gateways 1..NumGateways, talkers 101.. *)
Gateways == 1..NumGateways
Talkers == {100 + i : i \in 1..NumTalkers}

VARIABLES
    respond,                \* LDE.respond, per gateway
    alive,                  \* per gateway: the engine's MQTT thread still runs
    connected_clients,      \* LDE.connected_clients, per gateway: talker -> slot
    time_slot,              \* LDE.time_slot, per gateway
    sleep_times,            \* DataPolicy.sleep_times, per gateway: talker -> seconds
    aggregated_movement,    \* DataPolicy.aggregated_movement, per gateway
    aggregated_temperature, \* DataPolicy.aggregated_temperature, per gateway
    assignments,            \* Coordinator.assignments: talker -> gateway
    inbox,                  \* per gateway: messages the broker holds for its engine
    requests,               \* helo/request messages the coordinator has not handled
    published,              \* per gateway: what its engine published, in order
    store,                  \* the time-series store: talker -> rows of the last 2 days
    light_store,            \* talker -> number of AS7263/AS7262 row pairs written
    injected,               \* number of radio frames received so far
    baselines,              \* number of aggregator publishes so far
    handled,                \* per gateway: the messages its engine has handled
    roundtrip,              \* a packet or buffer taken through the codec
    radio,                  \* per gateway: the payloads its bridge wrote to the radio
    routed,                 \* per gateway: how many of its publications the broker has routed
    evaluation,             \* a packet taken through the gravity evaluation
    aggregator              \* Aggregator.start: still running, cycles done

vars == <<respond, alive, connected_clients, time_slot, sleep_times,
          aggregated_movement, aggregated_temperature, assignments, inbox,
          requests, published, store, light_store, injected,
          baselines, handled, roundtrip, radio, routed, evaluation, aggregator>>

(* ------------------------------------------------------------------ *)
(* Packets (ttt/packets.py): one record per dataclass                  *)
(* ------------------------------------------------------------------ *)
TTHeloPacket(receiver, sender, number) ==
    [packet_type |-> 5, receiver_address |-> receiver,
     sender_address |-> sender, packet_number |-> number]

TTCloudHeloPacket(receiver, sender, cmd, tm) ==
    [packet_type |-> 65, receiver_address |-> receiver,
     sender_address |-> sender, command |-> cmd, time |-> tm]

TTCommand1(receiver, sender, cmd, tm, sleep, unk, heat, slot, slotlen) ==
    [packet_type |-> 66, receiver_address |-> receiver,
     sender_address |-> sender, command |-> cmd, time |-> tm,
     sleep_interval |-> sleep, unknown |-> unk, heating |-> heat,
     time_slot |-> slot, time_slot_length |-> slotlen]

TTCommand2(receiver, sender, cmd, tm, integration, gain) ==
    [packet_type |-> 74, receiver_address |-> receiver,
     sender_address |-> sender, command |-> cmd, time |-> tm,
     integration_time |-> integration, gain |-> gain]


(* A Python float is kept as the nearest float32 below it (its bit pattern,  *)
(* positive finite values only) and the part pack("f") has to round:        *)
(* 0 none, 1 below half an ulp, 2 exactly half, 3 above half.               *)
Float32(bits) == [bits |-> bits, low |-> 0]

LightSensorPacket(receiver, sender, number, tm, red, blue, integration, gain) ==
    [packet_type |-> 73, receiver_address |-> receiver,
     sender_address |-> sender, packet_number |-> number, timestamp |-> tm,
     AS7263 |-> red, AS7262 |-> blue,
     integration_time |-> integration, gain |-> gain]

(* SAMPLE_PACKETS["DataPacket"], addressed as the caller says *)
SampleRev32(receiver, sender) ==
    [packet_type |-> 77, receiver_address |-> receiver,
     sender_address |-> sender, packet_number |-> 1, timestamp |-> 14400,
     growth_sensor |-> 47212, adc_bandgap |-> 43585, number_of_bits |-> 17,
     air_relative_humidity |-> 30, air_temperature |-> 226,
     gravity_z_mean |-> 57, gravity_z_derivation |-> -803,
     gravity_y_mean |-> 3986, gravity_y_derivation |-> 0,
     gravity_x_mean |-> 0, gravity_x_derivation |-> 0,
     StWC |-> 50566, adc_volt_bat |-> 82757,
     temperature_reference |-> <<34167, 34168>>,
     temperature_heat |-> <<34298, 22018>>]

(* the same measurement in the revision 3.1 layout *)
SampleRev31(receiver, sender) ==
    [packet_type |-> 69, receiver_address |-> receiver,
     sender_address |-> sender, packet_number |-> 1, timestamp |-> 14400,
     temperature_reference_cold |-> 20000, temperature_heat_cold |-> 20100,
     growth_sensor |-> 47212, voltage |-> 43585, number_of_bits |-> 17,
     air_relative_humidity |-> 30, air_temperature |-> 226,
     gravity_z_mean |-> 57, gravity_z_derivation |-> -803,
     gravity_y_mean |-> 3986, gravity_y_derivation |-> 0,
     gravity_x_mean |-> 0, gravity_x_derivation |-> 0,
     temperature_reference_hot |-> 20000, temperature_heat_hot |-> 21000,
     moisture |-> 1234]

(* SAMPLE_PACKETS["LightSensorPacket"]: the float32 patterns of SAMPLE_RAW *)
SampleLight(receiver, sender) ==
    LightSensorPacket(receiver, sender, 2, 14400,
        [w \in {610, 680, 730, 760, 810, 860} |->
            Float32(CASE w = 610 -> 1100154833 [] w = 680 -> 1104827976
                      [] w = 730 -> 1114982420 [] w = 760 -> 1116673366
                      [] w = 810 -> 1119048065 [] w = 860 -> 1119081520)],
        [w \in {450, 500, 550, 570, 600, 650} |->
            Float32(CASE w = 450 -> 1114054981 [] w = 500 -> 1114117605
                      [] w = 550 -> 1110474276 [] w = 570 -> 1110295620
                      [] w = 600 -> 1108309738 [] w = 650 -> 1108074969)],
        50, 3)

IsData(p) == p.packet_type \in {69, 77}

(* ------------------------------------------------------------------ *)
(* ttt/util.py                                                         *)
(* ------------------------------------------------------------------ *)
(* compute_temperature in hundredths of a degree, at the raw values the *)
(* packets of this model carry                                          *)
compute_temperature(measurement) ==
    CASE measurement = 34167 -> 2228
      [] measurement = 34168 -> 2228
      [] measurement = 34298 -> 2209
      [] measurement = 22018 -> 4331
      [] measurement = 20000 -> 4790
      [] measurement = 20100 -> 4766
      [] measurement = 21000 -> 4557
      [] measurement = 16000 -> 5843

(* the divisions of compute_battery_voltage_rev_3_1/_rev_3_2 are defined *)
BatteryVoltageDefined(packet) ==
    IF packet.packet_type = 69 THEN packet.voltage # 0
    ELSE packet.adc_bandgap # 0


(* ------------------------------------------------------------------ *)
(* struct.pack / struct.unpack with the "=" prefix: standard sizes, no *)
(* padding, little-endian on the hosts the gateways run on.  Integers  *)
(* of this model are within 32 bits signed, so an unsigned 32-bit      *)
(* value v at or above 2^31 (the sample address 3254976792) is held as *)
(* v - 2^32, the integer with the same four bytes.                     *)
(* ------------------------------------------------------------------ *)
CalcSizeOf(fmt) ==
    CASE fmt = "B" -> 1
      [] fmt \in {"H", "h"} -> 2
      [] fmt \in {"I", "f"} -> 4

RECURSIVE CalcSize(_)
CalcSize(fmts) ==
    IF fmts = <<>> THEN 0 ELSE CalcSizeOf(Head(fmts)) + CalcSize(Tail(fmts))

(* pack("f"): the double is rounded to the nearest float32, ties to even *)
RoundToFloat32(v) ==
    CASE v.low \in {0, 1} -> v.bits
      [] v.low = 2 -> IF v.bits % 2 = 0 THEN v.bits ELSE v.bits + 1
      [] v.low = 3 -> v.bits + 1

LittleEndian(n, size) == [i \in 1..size |-> (n \div (256 ^ (i - 1))) % 256]

(* struct.error: the argument is out of the format's range *)
InRange(fmt, v) ==
    CASE fmt = "B" -> v >= 0 /\ v <= 255
      [] fmt = "H" -> v >= 0 /\ v <= 65535
      [] fmt = "h" -> v >= -32768 /\ v <= 32767
      [] fmt = "I" -> TRUE
      [] fmt = "f" -> TRUE

PackOne(fmt, v) ==
    CASE fmt \in {"B", "H", "I"} -> LittleEndian(v, CalcSizeOf(fmt))
      [] fmt = "h" -> LittleEndian((v + 65536) % 65536, 2)
      [] fmt = "f" -> LittleEndian(RoundToFloat32(v), 4)

RECURSIVE FromLittleEndian(_)
FromLittleEndian(bytes) ==
    IF bytes = <<>> THEN 0
    ELSE Head(bytes) + 256 * FromLittleEndian(Tail(bytes))

(* four bytes as an unsigned 32-bit value, held as described above *)
U32(bytes) ==
    bytes[1] + 256 * bytes[2] + 65536 * bytes[3]
    + 16777216 * (IF bytes[4] >= 128 THEN bytes[4] - 256 ELSE bytes[4])

UnpackOne(fmt, bytes) ==
    LET u == FromLittleEndian(bytes)
    IN  CASE fmt \in {"B", "H"} -> u
          [] fmt = "I" -> U32(bytes)
          [] fmt = "h" -> IF u >= 32768 THEN u - 65536 ELSE u
          [] fmt = "f" -> Float32(u)

RECURSIVE CanPack(_, _)
CanPack(fmts, values) ==
    fmts = <<>> \/ (InRange(Head(fmts), Head(values))
                    /\ CanPack(Tail(fmts), Tail(values)))

RECURSIVE Pack(_, _)
Pack(fmts, values) ==
    IF fmts = <<>> THEN <<>>
    ELSE PackOne(Head(fmts), Head(values)) \o Pack(Tail(fmts), Tail(values))

(* variant: bytes after the last field are ignored *)
CanUnpack_AtLeast(fmts, bytes) == Len(bytes) >= CalcSize(fmts)

(* unpack raises struct.error unless the buffer has exactly calcsize bytes *)
CanUnpack(fmts, bytes) == Len(bytes) = CalcSize(fmts)

RECURSIVE Unpack(_, _)
Unpack(fmts, bytes) ==
    IF fmts = <<>> THEN <<>>
    ELSE LET n == CalcSizeOf(Head(fmts))
         IN  <<UnpackOne(Head(fmts), SubSeq(bytes, 1, n))>>
             \o Unpack(Tail(fmts), SubSeq(bytes, n + 1, Len(bytes)))


(* ------------------------------------------------------------------ *)
(* ttt/packets.py: the wire formats, unmarshall and marshall           *)
(* ------------------------------------------------------------------ *)
HeaderFmt == <<"I", "I", "B">>
HeloFmt == <<"B">>
CloudHeloFmt == <<"B", "I">>
Rev32Fmt ==
    <<"B", "I", "I", "I", "I", "I", "B", "B", "h", "h", "h", "h", "h", "h", "h", "I", "I", "H", "I">>
Rev31Fmt ==
    <<"B", "I", "h", "h", "I", "I", "B", "B", "h", "h", "h", "h", "h", "h", "h", "h", "h", "h">>
LightFmt ==
    <<"B", "I", "f", "f", "f", "f", "f", "f", "f", "f", "f", "f", "f", "f", "B", "B">>
Command1Fmt == <<"B", "I", "H", "H", "H", "B", "B">>
Command2Fmt == <<"B", "I", "B", "B">>

StructError == [error |-> "struct.error"]
(* variant: an unregistered tag is read as a Helo *)
KeyError_Helo == [packet_type |-> 5, receiver_address |-> 0,
                  sender_address |-> 0, packet_number |-> 0]

KeyError == [error |-> "KeyError"]
IsPacket(x) == "packet_type" \in DOMAIN x

TTHeloPacket_unmarshall(receiver, sender, rest) ==
    LET fields == Unpack(HeloFmt, rest)
    IN  TTHeloPacket(receiver, sender, fields[1])

TTCloudHeloPacket_unmarshall(receiver, sender, rest) ==
    LET fields == Unpack(CloudHeloFmt, rest)
    IN  TTCloudHeloPacket(receiver, sender, fields[1], fields[2])

DataPacketRev32_unmarshall(receiver, sender, rest) ==
    LET fields == Unpack(Rev32Fmt, rest)
    IN  [packet_type |-> 77, receiver_address |-> receiver,
         sender_address |-> sender,
         packet_number |-> fields[1], timestamp |-> fields[2],
         growth_sensor |-> fields[5], adc_bandgap |-> fields[6],
         number_of_bits |-> fields[7], air_relative_humidity |-> fields[8],
         air_temperature |-> fields[9],
         gravity_z_mean |-> fields[10], gravity_z_derivation |-> fields[11],
         gravity_y_mean |-> fields[12], gravity_y_derivation |-> fields[13],
         gravity_x_mean |-> fields[14], gravity_x_derivation |-> fields[15],
         StWC |-> fields[18], adc_volt_bat |-> fields[19],
         temperature_reference |-> <<fields[3], fields[16]>>,
         temperature_heat |-> <<fields[4], fields[17]>>]

DataPacketRev31_unmarshall(receiver, sender, rest) ==
    LET fields == Unpack(Rev31Fmt, rest)
    IN  [packet_type |-> 69, receiver_address |-> receiver,
         sender_address |-> sender,
         packet_number |-> fields[1], timestamp |-> fields[2],
         temperature_reference_cold |-> fields[3],
         temperature_heat_cold |-> fields[4],
         growth_sensor |-> fields[5], voltage |-> fields[6],
         number_of_bits |-> fields[7], air_relative_humidity |-> fields[8],
         air_temperature |-> fields[9],
         gravity_z_mean |-> fields[10], gravity_z_derivation |-> fields[11],
         gravity_y_mean |-> fields[12], gravity_y_derivation |-> fields[13],
         gravity_x_mean |-> fields[14], gravity_x_derivation |-> fields[15],
         temperature_reference_hot |-> fields[16],
         temperature_heat_hot |-> fields[17],
         moisture |-> fields[18]]

LightSensorPacket_unmarshall(receiver, sender, rest) ==
    LET fields == Unpack(LightFmt, rest)
    IN  LightSensorPacket(receiver, sender, fields[1], fields[2],
            (610 :> fields[3]) @@ (680 :> fields[4]) @@ (730 :> fields[5])
            @@ (760 :> fields[6]) @@ (810 :> fields[7]) @@ (860 :> fields[8]),
            (450 :> fields[9]) @@ (500 :> fields[10]) @@ (550 :> fields[11])
            @@ (570 :> fields[12]) @@ (600 :> fields[13]) @@ (650 :> fields[14]),
            fields[15], fields[16])

(* variant: the two slot bytes are read in the other order *)
TTCommand1_unmarshall_Swapped(receiver, sender, rest) ==
    LET fields == Unpack(Command1Fmt, rest)
    IN  [packet_type |-> 66, receiver_address |-> receiver,
         sender_address |-> sender,
         command |-> fields[1], time |-> fields[2],
         sleep_interval |-> fields[3], unknown |-> fields[4],
         heating |-> fields[5], time_slot_length |-> fields[7],
         time_slot |-> fields[6]]

TTCommand1_unmarshall(receiver, sender, rest) ==
    LET fields == Unpack(Command1Fmt, rest)
    IN  [packet_type |-> 66, receiver_address |-> receiver,
         sender_address |-> sender,
         command |-> fields[1], time |-> fields[2],
         sleep_interval |-> fields[3], unknown |-> fields[4],
         heating |-> fields[5], time_slot_length |-> fields[6],
         time_slot |-> fields[7]]

TTCommand2_unmarshall(receiver, sender, rest) ==
    LET fields == Unpack(Command2Fmt, rest)
    IN  TTCommand2(receiver, sender, fields[1], fields[2], fields[3], fields[4])

PACKET_TYPES == {5, 65, 66, 69, 73, 74, 77}

PayloadFmt(packet_type) ==
    CASE packet_type = 5 -> HeloFmt
      [] packet_type = 65 -> CloudHeloFmt
      [] packet_type = 66 -> Command1Fmt
      [] packet_type = 69 -> Rev31Fmt
      [] packet_type = 73 -> LightFmt
      [] packet_type = 74 -> Command2Fmt
      [] packet_type = 77 -> Rev32Fmt

(* unmarshall(raw): a packet, or the exception it raises *)
unmarshall(raw) ==
    IF Len(raw) < 9 THEN StructError
    ELSE
        LET header == Unpack(HeaderFmt, SubSeq(raw, 1, 9))
            receiver == header[1]
            sender == header[2]
            packet_type == header[3]
            rest == SubSeq(raw, 10, Len(raw))
        IN  IF packet_type \notin PACKET_TYPES THEN KeyError
            ELSE IF ~CanUnpack(PayloadFmt(packet_type), rest) THEN StructError
            ELSE CASE packet_type = 5 ->
                        TTHeloPacket_unmarshall(receiver, sender, rest)
                   [] packet_type = 65 ->
                        TTCloudHeloPacket_unmarshall(receiver, sender, rest)
                   [] packet_type = 66 ->
                        TTCommand1_unmarshall(receiver, sender, rest)
                   [] packet_type = 69 ->
                        DataPacketRev31_unmarshall(receiver, sender, rest)
                   [] packet_type = 73 ->
                        LightSensorPacket_unmarshall(receiver, sender, rest)
                   [] packet_type = 74 ->
                        TTCommand2_unmarshall(receiver, sender, rest)
                   [] packet_type = 77 ->
                        DataPacketRev32_unmarshall(receiver, sender, rest)

(* the arguments each class's marshall hands to pack, in order *)
MarshallValues(p) ==
    <<p.receiver_address, p.sender_address, p.packet_type>> \o
    CASE p.packet_type = 5 -> <<p.packet_number>>
      [] p.packet_type = 65 -> <<p.command, p.time>>
      [] p.packet_type = 66 ->
            <<p.command, p.time, p.sleep_interval, p.unknown, p.heating,
              p.time_slot_length, p.time_slot>>
      [] p.packet_type = 69 ->
            <<p.packet_number, p.timestamp, p.temperature_reference_cold,
              p.temperature_heat_cold, p.growth_sensor, p.voltage,
              p.number_of_bits, p.air_relative_humidity, p.air_temperature,
              p.gravity_z_mean, p.gravity_z_derivation, p.gravity_y_mean,
              p.gravity_y_derivation, p.gravity_x_mean, p.gravity_x_derivation,
              p.temperature_reference_hot, p.temperature_heat_hot, p.moisture>>
      [] p.packet_type = 73 ->
            <<p.packet_number, p.timestamp,
              p.AS7263[610], p.AS7263[680], p.AS7263[730],
              p.AS7263[760], p.AS7263[810], p.AS7263[860],
              p.AS7262[450], p.AS7262[500], p.AS7262[550],
              p.AS7262[570], p.AS7262[600], p.AS7262[650],
              p.integration_time, p.gain>>
      [] p.packet_type = 74 ->
            <<p.command, p.time, p.integration_time, p.gain>>
      [] p.packet_type = 77 ->
            <<p.packet_number, p.timestamp, p.temperature_reference[1],
              p.temperature_heat[1], p.growth_sensor, p.adc_bandgap,
              p.number_of_bits, p.air_relative_humidity, p.air_temperature,
              p.gravity_z_mean, p.gravity_z_derivation, p.gravity_y_mean,
              p.gravity_y_derivation, p.gravity_x_mean, p.gravity_x_derivation,
              p.temperature_reference[2], p.temperature_heat[2], p.StWC,
              p.adc_volt_bat>>

MarshallFmt(p) == HeaderFmt \o PayloadFmt(p.packet_type)

(* marshall raises struct.error when a field does not fit its format *)
CanMarshall(p) == CanPack(MarshallFmt(p), MarshallValues(p))

marshall(p) == Pack(MarshallFmt(p), MarshallValues(p))


(* ------------------------------------------------------------------ *)
(* ttcloud/packets.py, the codec the tests import.  TTHeloPacket,      *)
(* TTCloudHeloPacket and TTCommand2 are the same code as in            *)
(* ttt/packets.py; DataPacket, LightSensorPacket and TTCommand1 differ *)
(* in their fields, and PACKET_TYPES maps both 77 and 69 to DataPacket.*)
(* ------------------------------------------------------------------ *)
ttcloud_DataPacket_unmarshall(receiver, sender, rest) ==
    LET fields == Unpack(Rev32Fmt, rest)
    IN  [packet_type |-> 77, receiver_address |-> receiver,
         sender_address |-> sender,
         packet_number |-> fields[1], time |-> fields[2],
         growth_sensor |-> fields[5], adc_bandgap |-> fields[6],
         number_of_bits |-> fields[7], air_relative_humidity |-> fields[8],
         air_temperature |-> fields[9],
         gravity_z_mean |-> fields[10], gravity_z_derivation |-> fields[11],
         gravity_y_mean |-> fields[12], gravity_y_derivation |-> fields[13],
         gravity_x_mean |-> fields[14], gravity_x_derivation |-> fields[15],
         StWC |-> fields[18], adc_volt_bat |-> fields[19],
         temperature_reference |-> <<fields[3], fields[16]>>,
         temperature_heat |-> <<fields[4], fields[17]>>]

ttcloud_LightSensorPacket_unmarshall(receiver, sender, rest) ==
    LET fields == Unpack(LightFmt, rest)
    IN  [packet_type |-> 73, receiver_address |-> receiver,
         sender_address |-> sender,
         packet_number |-> fields[1], time |-> fields[2],
         AS7263 |->
            (610 :> fields[3]) @@ (680 :> fields[4]) @@ (730 :> fields[5])
            @@ (760 :> fields[6]) @@ (810 :> fields[7]) @@ (860 :> fields[8]),
         AS7262 |->
            (450 :> fields[9]) @@ (500 :> fields[10]) @@ (550 :> fields[11])
            @@ (570 :> fields[12]) @@ (600 :> fields[13]) @@ (650 :> fields[14]),
         integration_time |-> fields[15], gain |-> fields[16]]

ttcloud_TTCommand1_unmarshall(receiver, sender, rest) ==
    LET fields == Unpack(Command1Fmt, rest)
    IN  [packet_type |-> 66, receiver_address |-> receiver,
         sender_address |-> sender,
         command |-> fields[1], time |-> fields[2],
         sleep_intervall |-> fields[3], heating |-> fields[5],
         unknown |-> <<fields[4], fields[6], fields[7]>>]

ttcloud_PACKET_TYPES == {5, 65, 66, 73, 74, 77, 69}

(* the format the class PACKET_TYPES names for a tag unpacks *)
ttcloud_PayloadFmt(packet_type) ==
    IF packet_type \in {77, 69} THEN Rev32Fmt ELSE PayloadFmt(packet_type)

ttcloud_unmarshall(raw) ==
    IF Len(raw) < 9 THEN StructError
    ELSE
        LET header == Unpack(HeaderFmt, SubSeq(raw, 1, 9))
            receiver == header[1]
            sender == header[2]
            packet_type == header[3]
            rest == SubSeq(raw, 10, Len(raw))
        IN  IF packet_type \notin ttcloud_PACKET_TYPES THEN KeyError
            ELSE IF ~CanUnpack(ttcloud_PayloadFmt(packet_type), rest)
            THEN StructError
            ELSE CASE packet_type = 5 ->
                        TTHeloPacket_unmarshall(receiver, sender, rest)
                   [] packet_type = 65 ->
                        TTCloudHeloPacket_unmarshall(receiver, sender, rest)
                   [] packet_type = 66 ->
                        ttcloud_TTCommand1_unmarshall(receiver, sender, rest)
                   [] packet_type = 73 ->
                        ttcloud_LightSensorPacket_unmarshall(receiver, sender,
                                                             rest)
                   [] packet_type = 74 ->
                        TTCommand2_unmarshall(receiver, sender, rest)
                   [] packet_type \in {77, 69} ->
                        ttcloud_DataPacket_unmarshall(receiver, sender, rest)

ttcloud_MarshallValues(p) ==
    <<p.receiver_address, p.sender_address, p.packet_type>> \o
    CASE p.packet_type = 5 -> <<p.packet_number>>
      [] p.packet_type = 65 -> <<p.command, p.time>>
      [] p.packet_type = 66 ->
            <<p.command, p.time, p.sleep_intervall, p.unknown[1], p.heating,
              p.unknown[2], p.unknown[3]>>
      [] p.packet_type = 73 ->
            <<p.packet_number, p.time,
              p.AS7263[610], p.AS7263[680], p.AS7263[730],
              p.AS7263[760], p.AS7263[810], p.AS7263[860],
              p.AS7262[450], p.AS7262[500], p.AS7262[550],
              p.AS7262[570], p.AS7262[600], p.AS7262[650],
              p.integration_time, p.gain>>
      [] p.packet_type = 74 ->
            <<p.command, p.time, p.integration_time, p.gain>>
      [] p.packet_type = 77 ->
            <<p.packet_number, p.time, p.temperature_reference[1],
              p.temperature_heat[1], p.growth_sensor, p.adc_bandgap,
              p.number_of_bits, p.air_relative_humidity, p.air_temperature,
              p.gravity_z_mean, p.gravity_z_derivation, p.gravity_y_mean,
              p.gravity_y_derivation, p.gravity_x_mean, p.gravity_x_derivation,
              p.temperature_reference[2], p.temperature_heat[2], p.StWC,
              p.adc_volt_bat>>

ttcloud_MarshallFmt(p) == HeaderFmt \o ttcloud_PayloadFmt(p.packet_type)

ttcloud_CanMarshall(p) ==
    CanPack(ttcloud_MarshallFmt(p), ttcloud_MarshallValues(p))

ttcloud_marshall(p) == Pack(ttcloud_MarshallFmt(p), ttcloud_MarshallValues(p))


(* ------------------------------------------------------------------ *)
(* The time-series store.  to_influx_json writes one row per           *)
(* measurement for every data packet; store[talker] keeps, per packet, *)
(* the fields the policies read back.                                  *)
(* ------------------------------------------------------------------ *)
to_influx_json(packet) ==
    [x_mean |-> packet.gravity_x_mean, y_mean |-> packet.gravity_y_mean,
     z_mean |-> packet.gravity_z_mean,
     x_derivation |-> packet.gravity_x_derivation,
     y_derivation |-> packet.gravity_y_derivation,
     z_derivation |-> packet.gravity_z_derivation,
     ttt_reference_probe_cold |->
        compute_temperature(IF packet.packet_type = 69
                            THEN packet.temperature_reference_cold
                            ELSE packet.temperature_reference[1]),
     ttt_reference_probe_hot |->
        compute_temperature(IF packet.packet_type = 69
                            THEN packet.temperature_reference_hot
                            ELSE packet.temperature_reference[2]),
     ttt_heat_probe_cold |->
        compute_temperature(IF packet.packet_type = 69
                            THEN packet.temperature_heat_cold
                            ELSE packet.temperature_heat[1]),
     ttt_heat_probe_hot |->
        compute_temperature(IF packet.packet_type = 69
                            THEN packet.temperature_heat_hot
                            ELSE packet.temperature_heat[2])]

(* ------------------------------------------------------------------ *)
(* ttt/policy.py: DataPolicy                                           *)
(* ------------------------------------------------------------------ *)
RECURSIVE SeqSum(_)
SeqSum(xs) == IF xs = <<>> THEN 0 ELSE Head(xs) + SeqSum(Tail(xs))

Abs(x) == IF x < 0 THEN -x ELSE x

Column(rows, field) == [i \in 1..Len(rows) |-> rows[i][field]]

(* variant: the comparison is not strict *)
OutsideConfidence_NotStrict(value, xs) ==
    LET n == Len(xs)
        total == SeqSum(xs)
        squares == SeqSum([i \in 1..n |-> xs[i] * xs[i]])
        d == n * value - total
    IN  d * d * (n - 1)
            >= CONFIDENCE * CONFIDENCE * n * (n * squares - total * total)

(* abs(value - mean(xs)) > stdev(xs) * CONFIDENCE, for two or more points, *)
(* with both sides squared and multiplied by n * n * (n - 1)               *)
OutsideConfidence(value, xs) ==
    LET n == Len(xs)
        total == SeqSum(xs)
        squares == SeqSum([i \in 1..n |-> xs[i] * xs[i]])
        d == n * value - total
    IN  d * d * (n - 1)
            > CONFIDENCE * CONFIDENCE * n * (n * squares - total * total)

(* the aggregated_* dictionaries before the first global/# message: {} *)
NoBaseline == [empty |-> TRUE]

(* variant: without history the stored sleep time is used again *)
evaluate_battery_SeedKept(times, sender, rows, faults, prediction) ==
    IF "power" \in faults \/ rows = <<>>
    THEN [sleep_time |-> IF sender \in DOMAIN times THEN times[sender]
                         ELSE SLEEP_TIME_DEFAULT,
          sleep_times |-> times]
    ELSE LET seed == IF sender \in DOMAIN times THEN times[sender]
                     ELSE SLEEP_TIME_DEFAULT
             sleep_time == seed + (RDE * (3700 - prediction))
         IN  [sleep_time |-> sleep_time,
              sleep_times |-> [a \in DOMAIN times \cup {sender} |->
                                  IF a = sender THEN sleep_time ELSE times[a]]]

(* _evaluate_battery: the sleep time and the sleep_times it leaves.        *)
(* faults: the store operations that raise InfluxDBServerError, the one    *)
(* exception the code catches ("unreachable": every call to the store      *)
(* raises another one, as the client does when it cannot connect);         *)
(* prediction: what the fitted line predicts for 48 hours from now.        *)
evaluate_battery(times, sender, rows, faults, prediction) ==
    IF "power" \in faults \/ rows = <<>>
    THEN [sleep_time |-> SLEEP_TIME_DEFAULT, sleep_times |-> times]
    ELSE LET seed == IF sender \in DOMAIN times THEN times[sender]
                     ELSE SLEEP_TIME_DEFAULT
             sleep_time == seed + (RDE * (3700 - prediction))
         IN  [sleep_time |-> sleep_time,
              sleep_times |-> [a \in DOMAIN times \cup {sender} |->
                                  IF a = sender THEN sleep_time ELSE times[a]]]

(* _evaluate_position; stdev raises StatisticsError under two points *)
evaluate_position(packet, rows) ==
    IF Len(rows) < 2 THEN "raise"
    ELSE IF \/ OutsideConfidence(packet.gravity_x_mean, Column(rows, "x_mean"))
            \/ OutsideConfidence(packet.gravity_y_mean, Column(rows, "y_mean"))
            \/ OutsideConfidence(packet.gravity_z_mean, Column(rows, "z_mean"))
         THEN "anomaly" ELSE "normal"

(* variant: the derivative is taken as off whatever the engine holds *)
evaluate_movement_Always(packet, movement) == "anomaly"

evaluate_movement(packet, movement) ==
    IF movement = NoBaseline THEN "normal"
    ELSE IF \/ Abs(packet.gravity_x_derivation - movement.mean_x)
                    > movement.stdev_x * CONFIDENCE
            \/ Abs(packet.gravity_y_derivation - movement.mean_y)
                    > movement.stdev_y * CONFIDENCE
            \/ Abs(packet.gravity_z_derivation - movement.mean_z)
                    > movement.stdev_z * CONFIDENCE
         THEN "anomaly" ELSE "normal"

evaluate_gravity(packet, rows, movement, faults) ==
    IF "gravity" \in faults \/ rows = <<>> THEN "normal"
    ELSE LET position == evaluate_position(packet, rows)
         IN  IF position # "normal" THEN position
             ELSE evaluate_movement(packet, movement)

evaluate_air_temperature(packet) ==
    IF packet.air_temperature >= CRITICAL_TEMPERATURE * 10
    THEN "anomaly" ELSE "normal"

(* _evaluate_stem_temperature; a DataPacketRev32 has no attribute       *)
(* temperature_reference_cold (AttributeError)                          *)
evaluate_stem_temperature(packet, rows, temperature, faults) ==
    IF temperature = NoBaseline THEN "normal"
    ELSE IF packet.packet_type = 77 THEN "raise"
    ELSE
        LET delta_cold ==
                Abs(compute_temperature(packet.temperature_heat_cold)
                    - compute_temperature(packet.temperature_reference_cold))
            delta_hot ==
                Abs(compute_temperature(packet.temperature_heat_hot)
                    - compute_temperature(packet.temperature_reference_hot))
            n == Len(rows)
            deltas_cold == [i \in 1..n |->
                Abs(rows[i].ttt_heat_probe_cold
                    - rows[i].ttt_reference_probe_cold)]
            deltas_hot == [i \in 1..n |->
                Abs(rows[i].ttt_heat_probe_hot
                    - rows[i].ttt_reference_probe_hot)]
        IN  IF "stem_temperature" \in faults \/ rows = <<>> THEN "normal"
            ELSE IF \/ Abs(n * delta_cold - SeqSum(deltas_cold))
                            > n * temperature.stdev_delta_cold * CONFIDENCE
                    \/ Abs(n * delta_hot - SeqSum(deltas_hot))
                            > n * temperature.stdev_delta_hot * CONFIDENCE
                 THEN "anomaly" ELSE "normal"

Max(a, b) == IF a >= b THEN a ELSE b

(* variant: the battery result is used as it comes *)
SleepInterval_NoClamp(battery_sleep_time, verdicts) ==
    IF "anomaly" \in verdicts THEN SLEEP_TIME_MIN ELSE battery_sleep_time

(* variant: an anomaly does not shorten the interval *)
SleepInterval_AnomalyIgnored(battery_sleep_time, verdicts) ==
    Max(battery_sleep_time, SLEEP_TIME_MIN)

(* evaluate, lines 283-290 and 319-320: the battery result clamped from  *)
(* below, and SLEEP_TIME_MIN once any evaluation flags an anomaly        *)
SleepInterval(battery_sleep_time, verdicts) ==
    IF "anomaly" \in verdicts THEN SLEEP_TIME_MIN
    ELSE Max(battery_sleep_time, SLEEP_TIME_MIN)

(* variant: round(sleep_interval / 6) *)
Heating_Round(sleep_interval) == (sleep_interval + 3) \div 6

(* int(sleep_interval / 6) *)
Heating(sleep_interval) ==
    IF sleep_interval >= 0 THEN sleep_interval \div 6
    ELSE -((-sleep_interval) \div 6)

(* the reply of evaluate, once nothing has raised *)
ComposeCommand1(local_address, packet, tm, sleep_interval) ==
    TTCommand1(packet.sender_address, local_address, 32, tm, sleep_interval,
               0, Heating(sleep_interval), 0, TIME_SLOT_LENGTH)

(* variant: every publication goes to the one topic "anomaly" *)
Publish_KindLeftOut(topic, packet) == [topic |-> "anomaly", payload |-> packet]

(* mqtt_client.publish(topic, b64encode(packet.marshall())) *)
Publish(topic, packet) == [topic |-> topic, payload |-> packet]

(* DataPolicy.evaluate: whether it raised, the sleep_times it leaves, the  *)
(* anomaly messages it published up to there, and its reply                *)
evaluate(local_address, times, movement, temperature, packet, rows, faults, prediction, tm) ==
    LET battery == evaluate_battery(times, packet.sender_address, rows,
                                    faults, prediction)
        gravity == evaluate_gravity(packet, rows, movement, faults)
        stem == evaluate_stem_temperature(packet, rows, temperature, faults)
        air == evaluate_air_temperature(packet)
        gravity_pub == IF gravity = "anomaly"
                       THEN <<Publish("anomaly/gravity", packet)>> ELSE <<>>
        stem_pub == IF stem = "anomaly"
                    THEN <<Publish("anomaly/stem_temperature", packet)>>
                    ELSE <<>>
        air_pub == IF air = "anomaly"
                   THEN <<Publish("anomaly/air_temperature", packet)>>
                   ELSE <<>>
        sleep_interval ==
            SleepInterval(battery.sleep_time, {gravity, stem, air})
    IN  IF ~BatteryVoltageDefined(packet)
        THEN [raised |-> TRUE, sleep_times |-> times, published |-> <<>>]
        ELSE IF "unreachable" \in faults
        THEN [raised |-> TRUE, sleep_times |-> times, published |-> <<>>]
        ELSE IF gravity = "raise"
        THEN [raised |-> TRUE, sleep_times |-> battery.sleep_times,
              published |-> <<>>]
        ELSE IF stem = "raise"
        THEN [raised |-> TRUE, sleep_times |-> battery.sleep_times,
              published |-> gravity_pub]
        ELSE [raised |-> FALSE, sleep_times |-> battery.sleep_times,
              published |-> gravity_pub \o stem_pub \o air_pub,
              reply |-> ComposeCommand1(local_address, packet, tm,
                                        sleep_interval)]

(* LightPolicy.evaluate *)
light_evaluate(local_address, packet, tm) ==
    TTCommand2(packet.sender_address, local_address, 33, tm, 50, 3)


(* ------------------------------------------------------------------ *)
(* ttt/network_coordinator.py                                          *)
(* ------------------------------------------------------------------ *)
EmptyMap == [a \in {} |-> 0]

(* variant: the two addresses change places *)
HeloRequest_Swapped(cloud_address, tt_address) ==
    [cloud_address |-> tt_address, tt_address |-> cloud_address]

HeloRequest(cloud_address, tt_address) ==
    [cloud_address |-> cloud_address, tt_address |-> tt_address]

HeloResponse(tt_address, connect) ==
    [topic |-> "helo/response",
     payload |-> [tt_address |-> tt_address, connect |-> connect]]

(* variants of the verdict and of the assignment: every claimant is *)
(* accepted; only the first request of a talker is accepted; the    *)
(* latest claimant replaces the earlier one                         *)
CoordinatorConnect_Always(assigned, cloud_address, tt_address) == TRUE

CoordinatorConnect_FirstOnly(assigned, cloud_address, tt_address) ==
    tt_address \notin DOMAIN assigned

CoordinatorAssign_Overwrite(assigned, cloud_address, tt_address) ==
    [a \in DOMAIN assigned \cup {tt_address} |->
        IF a = tt_address THEN cloud_address ELSE assigned[a]]

(* on_message, lines 53-60: the verdict and the assignments it leaves *)
CoordinatorConnect(assigned, cloud_address, tt_address) ==
    IF tt_address \notin DOMAIN assigned THEN TRUE
    ELSE assigned[tt_address] = cloud_address

CoordinatorAssign(assigned, cloud_address, tt_address) ==
    IF tt_address \notin DOMAIN assigned
    THEN assigned @@ (tt_address :> cloud_address)
    ELSE assigned

CoordinatorOnMessage ==
    /\ requests # <<>>
    /\ LET request == Head(requests)
           cloud_address == request.cloud_address
           tt_address == request.tt_address
           connect == CoordinatorConnect(assignments, cloud_address, tt_address)
       IN  /\ assignments' =
                CoordinatorAssign(assignments, cloud_address, tt_address)
           /\ inbox' = [inbox EXCEPT ![cloud_address] =
                            Append(@, HeloResponse(tt_address, connect))]
    /\ requests' = Tail(requests)
    /\ UNCHANGED <<respond, alive, connected_clients, time_slot, sleep_times,
                   aggregated_movement, aggregated_temperature, published,
                   store, light_store, injected, baselines, handled,
                   roundtrip, radio, routed, evaluation, aggregator>>

(* ------------------------------------------------------------------ *)
(* ttt/local_decision_engine.py                                        *)
(* ------------------------------------------------------------------ *)
(* variant: a talker that is already tracked is given the next slot *)
add_tt_to_connected_Reassign(clients, slot, address) ==
    [connected_clients |->
        [a \in DOMAIN clients \cup {address} |->
            IF a = address THEN slot ELSE clients[a]],
     time_slot |-> slot + 1]

(* _add_tt_to_connected *)
add_tt_to_connected(clients, slot, address) ==
    IF address \in DOMAIN clients
    THEN [connected_clients |-> clients, time_slot |-> slot]
    ELSE [connected_clients |-> clients @@ (address :> slot),
          time_slot |-> slot + 1]

(* variant: the reply keeps the slot the policy put in, 0 *)
SlotOf_Unset(clients, address) == 0

(* connected_clients.get(address, 0) *)
SlotOf(clients, address) ==
    IF address \in DOMAIN clients THEN clients[address] ELSE 0

(* variant: the packet goes out twice *)
PublishCommand_Twice(responding, packet) ==
    IF ~responding THEN [raised |-> FALSE, published |-> <<>>]
    ELSE [raised |-> FALSE,
          published |-> <<[topic |-> "command", payload |-> packet],
                          [topic |-> "command", payload |-> packet]>>]

(* if self.respond: publish(command/<own>, b64encode(packet.marshall())):  *)
(* what is published, and whether marshall raised                          *)
PublishCommand(responding, packet) ==
    IF ~responding THEN [raised |-> FALSE, published |-> <<>>]
    ELSE IF ~CanMarshall(packet) THEN [raised |-> TRUE, published |-> <<>>]
    ELSE [raised |-> FALSE, published |-> <<Publish("command", packet)>>]

(* _handle_helo_response *)
HandleHeloResponse(g, response, tm) ==
    LET cloud_helo == TTCloudHeloPacket(response.tt_address, g,
                                        CLOUD_HELO_COMMAND, tm)
        sent == PublishCommand(respond[g], cloud_helo)
        added == add_tt_to_connected(connected_clients[g], time_slot[g],
                                     response.tt_address)
    IN  IF ~response.connect
        THEN UNCHANGED <<alive, connected_clients, time_slot, published>>
        ELSE IF sent.raised
        THEN /\ alive' = [alive EXCEPT ![g] = FALSE]
             /\ UNCHANGED <<connected_clients, time_slot, published>>
        ELSE /\ published' = [published EXCEPT ![g] = @ \o sent.published]
             /\ connected_clients' =
                    [connected_clients EXCEPT ![g] = added.connected_clients]
             /\ time_slot' = [time_slot EXCEPT ![g] = added.time_slot]
             /\ UNCHANGED alive

(* variant: the first baseline of a kind is kept *)
HandleGlobalState_FirstKept(g, topic, data) ==
    /\ aggregated_movement' =
            IF topic = "global/movement" /\ aggregated_movement[g] = NoBaseline
            THEN [aggregated_movement EXCEPT ![g] = data]
            ELSE aggregated_movement
    /\ aggregated_temperature' =
            IF topic = "global/temperature"
               /\ aggregated_temperature[g] = NoBaseline
            THEN [aggregated_temperature EXCEPT ![g] = data]
            ELSE aggregated_temperature

(* _handle_global_state *)
HandleGlobalState(g, topic, data) ==
    /\ aggregated_movement' =
            IF topic = "global/movement"
            THEN [aggregated_movement EXCEPT ![g] = data]
            ELSE aggregated_movement
    /\ aggregated_temperature' =
            IF topic = "global/temperature"
            THEN [aggregated_temperature EXCEPT ![g] = data]
            ELSE aggregated_temperature


(* _on_data, then the publish of _handle_packet: evaluate, copy the slot, *)
(* write the observation, publish the reply                               *)
on_data(g, clients, packet, faults, prediction, tm) ==
    LET outcome == evaluate(g, sleep_times[g], aggregated_movement[g],
                            aggregated_temperature[g], packet,
                            store[packet.sender_address], faults, prediction,
                            tm)
        reply == [outcome.reply EXCEPT
                    !.time_slot = SlotOf(clients, outcome.reply.receiver_address)]
        sent == PublishCommand(respond[g], reply)
    IN  IF outcome.raised
        THEN [raised |-> TRUE, sleep_times |-> outcome.sleep_times,
              published |-> outcome.published, rows |-> <<>>]
        ELSE [raised |-> sent.raised, sleep_times |-> outcome.sleep_times,
              published |-> outcome.published \o sent.published,
              rows |-> IF "write" \in faults THEN <<>>
                       ELSE <<to_influx_json(packet)>>]

(* _on_light, then the publish of _handle_packet *)
on_light(g, packet, faults, tm) ==
    LET sent == PublishCommand(respond[g], light_evaluate(g, packet, tm))
    IN  IF "unreachable" \in faults
        THEN [raised |-> TRUE, published |-> <<>>, rows |-> 0]
        ELSE [raised |-> sent.raised, published |-> sent.published,
              rows |-> IF "write" \in faults THEN 0 ELSE 1]

(* variant: a unicast packet is taken whoever it is addressed to *)
Unicast_ToAnyone(g, packet) == packet.receiver_address # MULTICAST

(* elif packet.receiver_address == self.address *)
Unicast(g, packet) ==
    packet.receiver_address # MULTICAST /\ packet.receiver_address = g

(* _handle_packet *)
HandlePacket(g, packet, faults, prediction, tm) ==
    LET multicast == packet.receiver_address = MULTICAST
        unicast == Unicast(g, packet)
        sender == packet.sender_address
        added == IF unicast /\ sender \notin DOMAIN connected_clients[g]
                 THEN add_tt_to_connected(connected_clients[g], time_slot[g],
                                          sender)
                 ELSE [connected_clients |-> connected_clients[g],
                       time_slot |-> time_slot[g]]
        data == on_data(g, added.connected_clients, packet, faults,
                        prediction, tm)
        light == on_light(g, packet, faults, tm)
    IN  IF ~(multicast \/ unicast)
        THEN UNCHANGED <<alive, connected_clients, time_slot, sleep_times,
                         published, requests, store, light_store>>
        ELSE
            /\ connected_clients' =
                    [connected_clients EXCEPT ![g] = added.connected_clients]
            /\ time_slot' = [time_slot EXCEPT ![g] = added.time_slot]
            /\ CASE packet.packet_type = 5 ->
                        /\ requests' = IF respond[g]
                                       THEN Append(requests,
                                                   HeloRequest(g, sender))
                                       ELSE requests
                        /\ UNCHANGED <<alive, sleep_times, published, store,
                                       light_store>>
                 [] IsData(packet) ->
                        /\ alive' = [alive EXCEPT ![g] = ~data.raised]
                        /\ sleep_times' =
                                [sleep_times EXCEPT ![g] = data.sleep_times]
                        /\ published' =
                                [published EXCEPT ![g] = @ \o data.published]
                        /\ store' = [store EXCEPT ![sender] = @ \o data.rows]
                        /\ UNCHANGED <<requests, light_store>>
                 [] packet.packet_type = 73 ->
                        /\ alive' = [alive EXCEPT ![g] = ~light.raised]
                        /\ published' =
                                [published EXCEPT ![g] = @ \o light.published]
                        /\ light_store' =
                                [light_store EXCEPT ![sender] = @ + light.rows]
                        /\ UNCHANGED <<sleep_times, requests, store>>
                 [] OTHER ->
                        UNCHANGED <<alive, sleep_times, published, requests,
                                    store, light_store>>

(* unmarshall(b64decode(message.payload)) in _handle_packet.  A message *)
(* a bridge published carries the packet the bridge marshalled; a       *)
(* message of any other client carries its bytes as they are.           *)
Decoded(message) ==
    IF "raw" \in DOMAIN message THEN unmarshall(message.raw)
    ELSE message.payload

(* LDE.on_message: the engine takes the next message the broker holds for *)
(* it and dispatches on the topic.  faults, prediction and tm are what    *)
(* the store and the clock answer during this call.  An exception that   *)
(* leaves on_message ends the network thread.                            *)
LdeOnMessage(g, faults, prediction, tm) ==
    /\ alive[g]
    /\ inbox[g] # <<>>
    /\ LET message == Head(inbox[g])
       IN  CASE message.topic = "receive" /\ ~IsPacket(Decoded(message)) ->
                    /\ alive' = [alive EXCEPT ![g] = FALSE]
                    /\ UNCHANGED <<connected_clients, time_slot, sleep_times,
                                   published, requests, store, light_store,
                                   aggregated_movement, aggregated_temperature>>
             [] message.topic = "receive" /\ IsPacket(Decoded(message)) ->
                    /\ HandlePacket(g, Decoded(message), faults, prediction,
                                    tm)
                    /\ UNCHANGED <<aggregated_movement, aggregated_temperature>>
             [] message.topic \in {"global/movement", "global/temperature"} ->
                    /\ HandleGlobalState(g, message.topic, message.payload)
                    /\ UNCHANGED <<alive, connected_clients, time_slot,
                                   sleep_times, published, requests, store,
                                   light_store>>
             [] message.topic = "helo/response" ->
                    /\ HandleHeloResponse(g, message.payload, tm)
                    /\ UNCHANGED <<sleep_times, aggregated_movement,
                                   aggregated_temperature, requests, store,
                                   light_store>>
    /\ inbox' = [inbox EXCEPT ![g] = Tail(@)]
    /\ handled' = [handled EXCEPT ![g] = Append(@, Head(inbox[g]))]
    /\ UNCHANGED <<respond, assignments, injected, baselines, roundtrip,
                   radio, routed, evaluation, aggregator>>

(* ------------------------------------------------------------------ *)
(* ttt/radio_communication_interface.py: on_rx_done.  A frame on the   *)
(* air is heard by the bridges in range; each publishes it on          *)
(* receive/<own address>.                                              *)
(* ------------------------------------------------------------------ *)
on_rx_done(hearers, packet) ==
    /\ injected < MaxPackets
    /\ injected' = injected + 1
    /\ inbox' = [g \in Gateways |->
                    IF g \in hearers
                    THEN Append(inbox[g], [topic |-> "receive",
                                           payload |-> packet])
                    ELSE inbox[g]]
    /\ UNCHANGED <<respond, alive, connected_clients, time_slot, sleep_times,
                   aggregated_movement, aggregated_temperature, assignments,
                   requests, published, store, light_store, baselines,
                   handled, roundtrip, radio, routed, evaluation, aggregator>>

(* Any client of the broker can publish on receive/<address>: a        *)
(* payload that is no packet reaches the engine of that gateway as it   *)
(* is.                                                                  *)
publish_raw(g, buffer) ==
    /\ injected < MaxPackets
    /\ injected' = injected + 1
    /\ inbox' = [inbox EXCEPT ![g] =
                    Append(@, [topic |-> "receive", raw |-> buffer])]
    /\ UNCHANGED <<respond, alive, connected_clients, time_slot, sleep_times,
                   aggregated_movement, aggregated_temperature, assignments,
                   requests, published, store, light_store, baselines,
                   handled, roundtrip, radio, routed, evaluation, aggregator>>

(* ------------------------------------------------------------------ *)
(* Topics.  The engine formats its address as an integer,              *)
(* f"command/{self.address.address}"; the bridge formats the TTAddress *)
(* itself, f"command/{self.address}", and TTAddress.__str__ is         *)
(* hex(self.address).                                                  *)
(* ------------------------------------------------------------------ *)
Digits == <<"0", "1", "2", "3", "4", "5", "6", "7", "8", "9",
            "a", "b", "c", "d", "e", "f">>

(* the digits of a non-negative integer in a base up to 16 *)
RECURSIVE ToBase(_, _)
ToBase(n, base) ==
    IF n < base THEN Digits[n + 1]
    ELSE ToBase(n \div base, base) \o Digits[(n % base) + 1]

(* str(int) *)
IntStr(n) == ToBase(n, 10)

(* TTAddress.__str__ *)
TTAddress_str(address) == "0x" \o ToBase(address, 16)

(* the topic LDE._handle_packet and _handle_helo_response publish on *)
CommandTopic(address) == "command/" \o IntStr(address)

(* the topic LoRaParser.__init__ subscribes to *)
Subscription(address) == "command/" \o TTAddress_str(address)

(* LoRaParser.send_packet: what is written to the radio *)
send_packet(packet) == <<255, 255, 0, 0>> \o marshall(packet)

(* LoRaParser.on_message: the payload is unmarshalled and sent *)
rci_on_message(payload) == send_packet(unmarshall(payload))

(* The broker routes the next publication of engine g: every bridge    *)
(* whose subscription is the publication's topic gets it (on_message); *)
(* a publication nobody subscribed to is dropped.                      *)
BrokerRoute(g) ==
    /\ routed[g] < Len(published[g])
    /\ LET message == published[g][routed[g] + 1]
           topic == IF message.topic = "command" THEN CommandTopic(g)
                    ELSE message.topic \o "/" \o IntStr(g)
       IN  radio' = [b \in Gateways |->
                        IF Subscription(b) = topic
                        THEN Append(radio[b],
                                    rci_on_message(marshall(message.payload)))
                        ELSE radio[b]]
    /\ routed' = [routed EXCEPT ![g] = @ + 1]
    /\ UNCHANGED <<respond, alive, connected_clients, time_slot, sleep_times,
                   aggregated_movement, aggregated_temperature, assignments,
                   inbox, requests, published, store, light_store, injected,
                   baselines, handled, roundtrip, evaluation, aggregator>>

(* ------------------------------------------------------------------ *)
(* ttt/aggregator.py: start.  Every cycle publishes the fleet          *)
(* baselines it computed; every engine is subscribed to global/#.      *)
(* ------------------------------------------------------------------ *)
AggregatorPublish(topic, data) ==
    /\ baselines < MaxBaselines
    /\ baselines' = baselines + 1
    /\ inbox' = [g \in Gateways |->
                    Append(inbox[g], [topic |-> topic, payload |-> data])]
    /\ UNCHANGED <<respond, alive, connected_clients, time_slot, sleep_times,
                   aggregated_movement, aggregated_temperature, assignments,
                   requests, published, store, light_store, injected,
                   handled, roundtrip, radio, routed, evaluation, aggregator>>

(* statistics.mean and statistics.stdev, to the whole number below: the *)
(* baselines of the model are whole numbers.  The variance is taken on *)
(* the distances from the first point, which leaves it as it is.  With *)
(* fewer than two points stdev raises StatisticsError.                 *)
StatisticsError == [error |-> "StatisticsError"]

RECURSIVE SqrtIn(_, _, _)
SqrtIn(v, lo, hi) ==
    IF lo = hi THEN lo
    ELSE LET mid == (lo + hi + 1) \div 2
         IN  IF mid * mid <= v THEN SqrtIn(v, mid, hi)
             ELSE SqrtIn(v, lo, mid - 1)

mean(xs) == SeqSum(xs) \div Len(xs)

stdev(xs) ==
    IF Len(xs) < 2 THEN StatisticsError
    ELSE LET n == Len(xs)
             total == SeqSum([i \in 1..n |-> xs[i] - xs[1]])
             squares == SeqSum([i \in 1..n |->
                                    (xs[i] - xs[1]) * (xs[i] - xs[1])])
             variance == (n * squares - total * total) \div (n * (n - 1))
         IN  SqrtIn(variance, 0, IF variance < 46340 THEN variance ELSE 46340)

(* what a query over all talkers returns: the rows of the last 2 days *)
RECURSIVE RowsOf(_, _)
RowsOf(rows, talkers) ==
    IF talkers = {} THEN <<>>
    ELSE LET t == CHOOSE t \in talkers : \A u \in talkers : t <= u
         IN  rows[t] \o RowsOf(rows, talkers \ {t})

(* _aggregate_movement: {} on InfluxDBServerError and on no points *)
aggregate_movement(rows, faults) ==
    IF "movement" \in faults \/ rows = <<>> THEN NoBaseline
    ELSE IF Len(rows) < 2 THEN stdev(Column(rows, "x_derivation"))
    ELSE [mean_x |-> mean(Column(rows, "x_derivation")),
          stdev_x |-> stdev(Column(rows, "x_derivation")),
          mean_y |-> mean(Column(rows, "y_derivation")),
          stdev_y |-> stdev(Column(rows, "y_derivation")),
          mean_z |-> mean(Column(rows, "z_derivation")),
          stdev_z |-> stdev(Column(rows, "z_derivation"))]

(* _aggregate_temperature: {} on InfluxDBServerError and on no rows *)
aggregate_temperature(rows, faults) ==
    LET deltas_cold == [i \in 1..Len(rows) |->
                            Abs(rows[i].ttt_heat_probe_cold
                                - rows[i].ttt_reference_probe_cold)]
        deltas_hot == [i \in 1..Len(rows) |->
                            Abs(rows[i].ttt_heat_probe_hot
                                - rows[i].ttt_reference_probe_hot)]
    IN  IF "temperature" \in faults \/ rows = <<>> THEN NoBaseline
        ELSE IF Len(rows) < 2 THEN stdev(deltas_cold)
        ELSE [stdev_delta_cold |-> stdev(deltas_cold),
              stdev_delta_hot |-> stdev(deltas_hot)]

(* what a cycle did with an aggregation: it raised, it had nothing to *)
(* send, or it published                                              *)
Outcome(aggregated) ==
    IF aggregated = StatisticsError THEN "raised"
    ELSE IF aggregated = NoBaseline THEN "skipped" ELSE "published"

GlobalState(topic, aggregated) ==
    IF Outcome(aggregated) = "published"
    THEN <<[topic |-> topic, payload |-> aggregated]>> ELSE <<>>

(* one turn of the loop of start: the movement aggregation and its    *)
(* publish, the temperature aggregation and its publish, the sleep.   *)
(* An exception of an aggregation leaves start and ends the process.  *)
AggregatorCycle(faults) ==
    /\ aggregator.alive /\ aggregator.cycles < MaxCycles
    /\ LET rows == RowsOf(store, DOMAIN store)
           aggregated_mov == aggregate_movement(rows, faults)
           reached == aggregated_mov # StatisticsError
           aggregated_temp == aggregate_temperature(rows, faults)
           sent == GlobalState("global/movement", aggregated_mov)
                   \o (IF reached
                       THEN GlobalState("global/temperature", aggregated_temp)
                       ELSE <<>>)
       IN  /\ inbox' = [g \in Gateways |-> inbox[g] \o sent]
           /\ aggregator' =
                [alive |-> reached /\ aggregated_temp # StatisticsError,
                 cycles |-> aggregator.cycles + 1,
                 rows |-> Len(rows),
                 movement |-> Outcome(aggregated_mov),
                 temperature |-> IF reached THEN Outcome(aggregated_temp)
                                 ELSE "none"]
    /\ UNCHANGED <<respond, alive, connected_clients, time_slot, sleep_times,
                   aggregated_movement, aggregated_temperature, assignments,
                   requests, published, store, light_store, injected,
                   baselines, handled, roundtrip, radio, routed, evaluation>>

(* ------------------------------------------------------------------ *)
(* The environment: frames on the air, store contents, store faults,   *)
(* regression results, clock readings, fleet baselines                 *)
(* ------------------------------------------------------------------ *)
Receivers == {MULTICAST} \cup Gateways

Hearers == (SUBSET Gateways) \ {{}}

HotRev31(receiver, sender) ==
    [SampleRev31(receiver, sender) EXCEPT
        !.air_temperature = CRITICAL_TEMPERATURE * 10]

(* the frames of the join protocol: a Helo or an observation *)
Frames ==
    UNION {{TTHeloPacket(r, t, 1), SampleRev31(r, t)} :
           r \in Receivers, t \in Talkers}

(* the frames of the data path, from one talker *)
DataFrames ==
    UNION {{TTHeloPacket(r, 101, 1), SampleRev32(r, 101), SampleRev31(r, 101),
            HotRev31(r, 101), SampleLight(r, 101)} : r \in {MULTICAST, 1}}

(* what the store holds for a talker at start: nothing, or one or two *)
(* earlier observations                                               *)
Observation == to_influx_json(SampleRev31(MULTICAST, 0))

Histories == {<<>>, <<Observation>>, <<Observation, Observation>>}

NoFaults == {{}}

Faults == {{}, {"power", "gravity", "stem_temperature", "write"}}

Nominal == {3700}

Predictions == {3000, 3700, 4177}

Clock == {14400}

MovementBaselines ==
    {[mean_x |-> 0, stdev_x |-> 0, mean_y |-> 0, stdev_y |-> 0,
      mean_z |-> -803, stdev_z |-> 0]}

TemperatureBaselines == {[stdev_delta_cold |-> 10, stdev_delta_hot |-> 10]}

Idle == [stage |-> "idle"]

(* the processes after construction, nothing received yet *)
Booted ==
    /\ respond \in [Gateways -> BOOLEAN]
    /\ alive = [g \in Gateways |-> TRUE]
    /\ connected_clients = [g \in Gateways |-> EmptyMap]
    /\ time_slot = [g \in Gateways |-> 1]
    /\ sleep_times = [g \in Gateways |-> EmptyMap]
    /\ aggregated_movement = [g \in Gateways |-> NoBaseline]
    /\ aggregated_temperature = [g \in Gateways |-> NoBaseline]
    /\ assignments = EmptyMap
    /\ inbox = [g \in Gateways |-> <<>>]
    /\ requests = <<>>
    /\ published = [g \in Gateways |-> <<>>]
    /\ store \in {[t \in Talkers |-> history] : history \in Histories}
    /\ light_store = [t \in Talkers |-> 0]
    /\ injected = 0
    /\ baselines = 0
    /\ handled = [g \in Gateways |-> <<>>]
    /\ radio = [g \in Gateways |-> <<>>]
    /\ routed = [g \in Gateways |-> 0]
    /\ aggregator = [alive |-> TRUE, cycles |-> 0, rows |-> 0,
                     movement |-> "none", temperature |-> "none"]

Init == Booted /\ roundtrip = Idle /\ evaluation = Idle

(* the join protocol: every gateway, every talker *)
Next ==
    \/ \E hearers \in Hearers, packet \in Frames :
            on_rx_done(hearers, packet)
    \/ CoordinatorOnMessage
    \/ \E g \in Gateways, faults \in NoFaults, prediction \in Nominal,
          tm \in Clock :
            LdeOnMessage(g, faults, prediction, tm)

Spec == Init /\ [][Next]_vars

(* the data path: one talker in range of gateway 1, a store that may *)
(* fail, any regression result, the aggregator running               *)
PolicyNext ==
    \/ \E packet \in DataFrames : on_rx_done({1}, packet)
    \/ CoordinatorOnMessage
    \/ \E faults \in Faults, prediction \in Predictions, tm \in Clock :
            LdeOnMessage(1, faults, prediction, tm)
    \/ \E data \in MovementBaselines :
            AggregatorPublish("global/movement", data)
    \/ \E data \in TemperatureBaselines :
            AggregatorPublish("global/temperature", data)

PolicySpec == Init /\ [][PolicyNext]_vars

(* the reply path: one talker in range of gateway 1, the broker routing *)
(* what the engines publish                                             *)
BridgeNext ==
    \/ \E packet \in DataFrames : on_rx_done({1}, packet)
    \/ CoordinatorOnMessage
    \/ \E faults \in NoFaults, prediction \in Nominal, tm \in Clock :
            LdeOnMessage(1, faults, prediction, tm)
    \/ \E g \in Gateways : BrokerRoute(g)

BridgeSpec == Init /\ [][BridgeNext]_vars

(* ------------------------------------------------------------------ *)
(* A crowded site.  Gateway 1 runs with respond on and gateway 2 as an *)
(* observer (--no-respond); each has its own talkers in range, and the  *)
(* n-th talker of each sends its gateway its first data packet, so the  *)
(* two engines are delivered the same sequence of messages, each        *)
(* addressed to itself.  The talkers transmit in turns: one sends after *)
(* both engines are done with what the last one sent, or dead.          *)
(* ------------------------------------------------------------------ *)
MaxCrowd == 257

Twins == {1, 2}

CrowdTalker(g, n) == 1000 * g + n

CrowdTalkers == {CrowdTalker(g, n) : g \in Twins, n \in 1..MaxCrowd}

(* the engine has nothing left to handle, or its network thread has died *)
Settled(g) == inbox[g] = <<>> \/ ~alive[g]

CrowdInit ==
    /\ respond = [g \in Gateways |-> g = 1]
    /\ alive = [g \in Gateways |-> TRUE]
    /\ connected_clients = [g \in Gateways |-> EmptyMap]
    /\ time_slot = [g \in Gateways |-> 1]
    /\ sleep_times = [g \in Gateways |-> EmptyMap]
    /\ aggregated_movement = [g \in Gateways |-> NoBaseline]
    /\ aggregated_temperature = [g \in Gateways |-> NoBaseline]
    /\ assignments = EmptyMap
    /\ inbox = [g \in Gateways |-> <<>>]
    /\ requests = <<>>
    /\ published = [g \in Gateways |-> <<>>]
    /\ store = [t \in Talkers \cup CrowdTalkers |-> <<>>]
    /\ light_store = [t \in Talkers \cup CrowdTalkers |-> 0]
    /\ injected = 0
    /\ baselines = 0
    /\ handled = [g \in Gateways |-> <<>>]
    /\ radio = [g \in Gateways |-> <<>>]
    /\ routed = [g \in Gateways |-> 0]
    /\ roundtrip = Idle
    /\ evaluation = Idle
    /\ aggregator = [alive |-> TRUE, cycles |-> 0, rows |-> 0,
                     movement |-> "none", temperature |-> "none"]

(* on_rx_done at both bridges: each hears the n-th talker of its own *)
(* crowd and publishes the frame on receive/<own address>            *)
on_rx_done_in_turn(n) ==
    /\ injected < MaxCrowd
    /\ n = injected + 1
    /\ \A g \in Twins : Settled(g)
    /\ injected' = injected + 1
    /\ inbox' = [g \in Gateways |->
                    IF g \in Twins
                    THEN Append(inbox[g],
                                [topic |-> "receive",
                                 payload |-> SampleRev31(g, CrowdTalker(g, n))])
                    ELSE inbox[g]]
    /\ UNCHANGED <<respond, alive, connected_clients, time_slot, sleep_times,
                   aggregated_movement, aggregated_temperature, assignments,
                   requests, published, store, light_store, baselines,
                   handled, roundtrip, radio, routed, evaluation, aggregator>>

CrowdNext ==
    \/ \E n \in 1..MaxCrowd : on_rx_done_in_turn(n)
    \/ \E g \in Twins, faults \in NoFaults, prediction \in Nominal,
          tm \in Clock :
            LdeOnMessage(g, faults, prediction, tm)

CrowdSpec == CrowdInit /\ [][CrowdNext]_vars

(* ------------------------------------------------------------------ *)
(* The codec on its own: a packet is marshalled and the bytes          *)
(* unmarshalled (what a bridge and an engine do to each other's        *)
(* payloads), or a buffer is unmarshalled and the packet marshalled    *)
(* (on_rx_done).  module: "ttt" for ttt/packets.py, "ttcloud" for      *)
(* ttcloud/packets.py.                                                 *)
(* ------------------------------------------------------------------ *)
(* field values by seed: 0 the least of the format, 1 the greatest this *)
(* model holds (integers below 2^31, finite positive floats), then      *)
(* values that differ from field to field                               *)
FieldValue(fmt, seed, i) ==
    LET mix == seed * 7919 + i * 104729
    IN  CASE fmt = "B" -> IF seed = 0 THEN 0 ELSE IF seed = 1 THEN 255
                          ELSE mix % 256
          [] fmt = "H" -> IF seed = 0 THEN 0 ELSE IF seed = 1 THEN 65535
                          ELSE mix % 65536
          [] fmt = "h" -> IF seed = 0 THEN -32768 ELSE IF seed = 1 THEN 32767
                          ELSE (mix % 65536) - 32768
          [] fmt = "I" -> IF seed = 0 THEN 0 ELSE IF seed = 1 THEN 2147483647
                          ELSE (mix * 613) % 2147483647
          [] fmt = "f" -> Float32(IF seed = 0 THEN 0
                                  ELSE IF seed = 1 THEN 2139095039
                                  ELSE (mix * 613) % 2139095040)

FieldValues(fmts, seed) ==
    [i \in 1..Len(fmts) |-> FieldValue(fmts[i], seed, i)]

(* a packet of the module, built from the field values of a seed *)
PacketOf(module, packet_type, seed) ==
    LET v == FieldValues(HeaderFmt \o (IF module = "ttt"
                                       THEN PayloadFmt(packet_type)
                                       ELSE ttcloud_PayloadFmt(packet_type)),
                         seed)
        red == (610 :> v[6]) @@ (680 :> v[7]) @@ (730 :> v[8])
               @@ (760 :> v[9]) @@ (810 :> v[10]) @@ (860 :> v[11])
        blue == (450 :> v[12]) @@ (500 :> v[13]) @@ (550 :> v[14])
                @@ (570 :> v[15]) @@ (600 :> v[16]) @@ (650 :> v[17])
        rev32 == [packet_type |-> 77, receiver_address |-> v[1],
                  sender_address |-> v[2], packet_number |-> v[4],
                  growth_sensor |-> v[8], adc_bandgap |-> v[9],
                  number_of_bits |-> v[10], air_relative_humidity |-> v[11],
                  air_temperature |-> v[12],
                  gravity_z_mean |-> v[13], gravity_z_derivation |-> v[14],
                  gravity_y_mean |-> v[15], gravity_y_derivation |-> v[16],
                  gravity_x_mean |-> v[17], gravity_x_derivation |-> v[18],
                  StWC |-> v[21], adc_volt_bat |-> v[22],
                  temperature_reference |-> <<v[6], v[19]>>,
                  temperature_heat |-> <<v[7], v[20]>>]
    IN  CASE packet_type = 5 -> TTHeloPacket(v[1], v[2], v[4])
          [] packet_type = 65 -> TTCloudHeloPacket(v[1], v[2], v[4], v[5])
          [] packet_type = 74 ->
                TTCommand2(v[1], v[2], v[4], v[5], v[6], v[7])
          [] packet_type = 66 /\ module = "ttt" ->
                TTCommand1(v[1], v[2], v[4], v[5], v[6], v[7], v[8], v[10],
                           v[9])
          [] packet_type = 66 /\ module = "ttcloud" ->
                [packet_type |-> 66, receiver_address |-> v[1],
                 sender_address |-> v[2], command |-> v[4], time |-> v[5],
                 sleep_intervall |-> v[6], heating |-> v[8],
                 unknown |-> <<v[7], v[9], v[10]>>]
          [] packet_type = 73 /\ module = "ttt" ->
                LightSensorPacket(v[1], v[2], v[4], v[5], red, blue,
                                  v[18], v[19])
          [] packet_type = 73 /\ module = "ttcloud" ->
                [packet_type |-> 73, receiver_address |-> v[1],
                 sender_address |-> v[2], packet_number |-> v[4],
                 time |-> v[5], AS7263 |-> red, AS7262 |-> blue,
                 integration_time |-> v[18], gain |-> v[19]]
          [] packet_type = 77 /\ module = "ttt" ->
                rev32 @@ [timestamp |-> v[5]]
          [] packet_type = 77 /\ module = "ttcloud" ->
                rev32 @@ [time |-> v[5]]
          [] packet_type = 69 ->
                [packet_type |-> 69, receiver_address |-> v[1],
                 sender_address |-> v[2], packet_number |-> v[4],
                 timestamp |-> v[5], temperature_reference_cold |-> v[6],
                 temperature_heat_cold |-> v[7], growth_sensor |-> v[8],
                 voltage |-> v[9], number_of_bits |-> v[10],
                 air_relative_humidity |-> v[11], air_temperature |-> v[12],
                 gravity_z_mean |-> v[13], gravity_z_derivation |-> v[14],
                 gravity_y_mean |-> v[15], gravity_y_derivation |-> v[16],
                 gravity_x_mean |-> v[17], gravity_x_derivation |-> v[18],
                 temperature_reference_hot |-> v[19],
                 temperature_heat_hot |-> v[20], moisture |-> v[21]]

(* a buffer with the tag and the payload length its class unpacks *)
BufferOf(module, packet_type, seed) ==
    LET fmts == HeaderFmt \o (IF module = "ttt" THEN PayloadFmt(packet_type)
                              ELSE ttcloud_PayloadFmt(packet_type))
        v == FieldValues(fmts, seed)
    IN  Pack(fmts, [i \in 1..Len(fmts) |-> IF i = 3 THEN packet_type ELSE v[i]])

Seeds == 0..MaxSeed

(* the readings of a light packet *)
Floats(p) ==
    IF p.packet_type = 73
    THEN {p.AS7263[w] : w \in DOMAIN p.AS7263}
         \cup {p.AS7262[w] : w \in DOMAIN p.AS7262}
    ELSE {}

(* the float32 patterns above +infinity are NaNs *)
IsNaN(v) == v.bits > 2139095040

(* __eq__ of the packet classes: isinstance and self.__dict__ ==         *)
(* other.__dict__.  Two floats from different calls are compared by      *)
(* value, and a NaN equals nothing.                                      *)
PacketEq(p, q) == p = q /\ \A v \in Floats(p) : ~IsNaN(v)

(* light packets with one reading that is a NaN, and with one reading *)
(* that is no float32 value (pack has to round it up)                 *)
LightWith(module, reading) ==
    [PacketOf(module, 73, 2) EXCEPT !.AS7263[610] = reading]

OddLights(module) ==
    {LightWith(module, Float32(2143289344)),
     LightWith(module, [bits |-> 1100154833, low |-> 3])}

(* every field fits its wire format: integers within the format's range, *)
(* floats that are float32 values                                        *)
WithinWireWidths(module, p) ==
    /\ IF module = "ttt" THEN CanMarshall(p) ELSE ttcloud_CanMarshall(p)
    /\ \A v \in Floats(p) : v.low = 0

(* the variants each module defines *)
Variants(module) ==
    IF module = "ttt" THEN PACKET_TYPES ELSE ttcloud_PACKET_TYPES \ {69}

NoPacket == [packet_type |-> 0]

(* the sample addresses; 3254976792 = 0xc2030118 is held as 3254976792 - 2^32 *)
SAMPLE_CLOUD == -1039990504
SAMPLE_TALKER == 1375928658

(* SAMPLE_RAW, in the order of the file *)
SAMPLE_RAW ==
    <<
      (* TTHeloPacket *)
      <<74, 74, 74, 74, 82, 1, 3, 82, 5, 2>>,
      (* TTCloudHeloPacket *)
      <<82, 1, 3, 82, 24, 1, 3, 194, 65, 190, 82, 216, 72, 96>>,
      (* DataPacket *)
      <<24, 1, 3, 194, 82, 1, 3, 82, 77, 1, 64, 56, 0, 0, 119, 133, 0, 0,
        250, 133, 0, 0, 108, 184, 0, 0, 65, 170, 0, 0, 17, 30, 226, 0, 57,
        0, 221, 252, 146, 15, 0, 0, 0, 0, 0, 0, 120, 133, 0, 0, 2, 86, 0,
        0, 134, 197, 69, 67, 1, 0>>,
      (* LightSensorPacket *)
      <<24, 1, 3, 194, 82, 1, 3, 82, 73, 2, 64, 56, 0, 0, 209, 7, 147, 65,
        72, 86, 218, 65, 20, 72, 117, 66, 86, 21, 143, 66, 129, 81, 179,
        66, 48, 212, 179, 66, 69, 33, 103, 66, 229, 21, 104, 66, 36, 126,
        48, 66, 68, 196, 45, 66, 234, 118, 15, 66, 217, 225, 11, 66, 50, 3>>,
      (* TTCommand1 *)
      <<82, 1, 3, 82, 24, 1, 3, 194, 66, 24, 140, 216, 72, 96, 16, 14, 0,
        0, 88, 2, 45, 2>>,
      (* TTCommand2 *)
      <<82, 1, 3, 82, 24, 1, 3, 194, 74, 82, 137, 225, 72, 96, 50, 3>>
    >>

(* SAMPLE_PACKETS of ttt/packets.py, in the same order *)
SAMPLE_PACKETS ==
    <<TTHeloPacket(MULTICAST, SAMPLE_TALKER, 2),
      TTCloudHeloPacket(SAMPLE_TALKER, SAMPLE_CLOUD, 190, 1615386706),
      SampleRev32(SAMPLE_CLOUD, SAMPLE_TALKER),
      SampleLight(SAMPLE_CLOUD, SAMPLE_TALKER),
      TTCommand1(SAMPLE_TALKER, SAMPLE_CLOUD, 24, 1615386764, 3600, 0, 600,
                 2, 45),
      TTCommand2(SAMPLE_TALKER, SAMPLE_CLOUD, 82, 1615389065, 50, 3)>>

(* SAMPLE_PACKETS of tests/test_packets.py: the classes of             *)
(* ttcloud/packets.py (time for timestamp, the three reserved values   *)
(* of a Command1 as one tuple)                                         *)
tests_SAMPLE_PACKETS ==
    <<TTHeloPacket(MULTICAST, SAMPLE_TALKER, 2),
      TTCloudHeloPacket(SAMPLE_TALKER, SAMPLE_CLOUD, 190, 1615386706),
      [packet_type |-> 77, receiver_address |-> SAMPLE_CLOUD,
       sender_address |-> SAMPLE_TALKER, packet_number |-> 1, time |-> 14400,
       growth_sensor |-> 47212, adc_bandgap |-> 43585, number_of_bits |-> 17,
       air_relative_humidity |-> 30, air_temperature |-> 226,
       gravity_z_mean |-> 57, gravity_z_derivation |-> -803,
       gravity_y_mean |-> 3986, gravity_y_derivation |-> 0,
       gravity_x_mean |-> 0, gravity_x_derivation |-> 0,
       StWC |-> 50566, adc_volt_bat |-> 82757,
       temperature_reference |-> <<34167, 34168>>,
       temperature_heat |-> <<34298, 22018>>],
      [packet_type |-> 73, receiver_address |-> SAMPLE_CLOUD,
       sender_address |-> SAMPLE_TALKER, packet_number |-> 2, time |-> 14400,
       AS7263 |-> SampleLight(0, 0).AS7263,
       AS7262 |-> SampleLight(0, 0).AS7262,
       integration_time |-> 50, gain |-> 3],
      [packet_type |-> 66, receiver_address |-> SAMPLE_TALKER,
       sender_address |-> SAMPLE_CLOUD, command |-> 24, time |-> 1615386764,
       sleep_intervall |-> 3600, heating |-> 600, unknown |-> <<0, 45, 2>>],
      TTCommand2(SAMPLE_TALKER, SAMPLE_CLOUD, 82, 1615389065, 50, 3)>>

SamplePackets(module) ==
    IF module = "ttt" THEN SAMPLE_PACKETS ELSE tests_SAMPLE_PACKETS

(* tags no class is registered for *)
UnknownTags == {0, 6, 67, 255}

(* buffers a radio can hand over that are no packet: the tag replaced *)
(* by an unknown one                                                  *)
Retagged(buffer) == {[buffer EXCEPT ![9] = tag] : tag \in UnknownTags}

(* a header cut short, a payload one byte short, no payload at all, a *)
(* payload one byte long and a payload sent twice                     *)
Missized(buffer) ==
    {SubSeq(buffer, 1, n) : n \in {0, 5, 8, 9, Len(buffer) - 1}}
    \cup {buffer \o <<0>>, buffer \o SubSeq(buffer, 10, Len(buffer))}

GivenBuffer(module, buffer) ==
    [stage |-> "given", first |-> "unmarshall", module |-> module,
     given_packet |-> NoPacket, given_buffer |-> buffer,
     packet |-> NoPacket, buffer |-> buffer]

GivenPacket(module, packet) ==
    [stage |-> "given", first |-> "marshall", module |-> module,
     given_packet |-> packet, given_buffer |-> <<>>,
     packet |-> packet, buffer |-> <<>>]

CodecInputs ==
    {[stage |-> "given", first |-> "marshall", module |-> m,
      given_packet |-> PacketOf(m, t, seed), given_buffer |-> <<>>,
      packet |-> PacketOf(m, t, seed), buffer |-> <<>>] :
        <<m, t>> \in {<<m, t>> \in {"ttt", "ttcloud"} \X PACKET_TYPES :
                        t \in Variants(m)},
        seed \in Seeds}
    \cup
    {[stage |-> "given", first |-> "marshall", module |-> m[1],
      given_packet |-> m[2], given_buffer |-> <<>>,
      packet |-> m[2], buffer |-> <<>>] :
        m \in {<<"ttt", p>> : p \in OddLights("ttt")}
              \cup {<<"ttcloud", p>> : p \in OddLights("ttcloud")}}
    \cup
    {[stage |-> "given", first |-> "unmarshall", module |-> m,
      given_packet |-> NoPacket, given_buffer |-> BufferOf(m, t, seed),
      packet |-> NoPacket, buffer |-> BufferOf(m, t, seed)] :
        <<m, t>> \in {"ttt", "ttcloud"} \X PACKET_TYPES, seed \in Seeds}
    \cup
    {GivenBuffer(m, SAMPLE_RAW[i]) : m \in {"ttt", "ttcloud"}, i \in 1..6}
    \cup
    {GivenPacket(m, SamplePackets(m)[i]) : m \in {"ttt", "ttcloud"}, i \in 1..6}
    \cup
    UNION {{GivenBuffer(m, b) : b \in Retagged(BufferOf(m, t, seed))
                                      \cup Missized(BufferOf(m, t, seed))} :
            <<m, t>> \in {"ttt", "ttcloud"} \X PACKET_TYPES, seed \in {2}}

(* which call comes next in the round trip *)
NextCall ==
    CASE roundtrip.stage = "given" -> roundtrip.first
      [] roundtrip.stage = "half" ->
            IF roundtrip.first = "marshall" THEN "unmarshall" ELSE "marshall"
      [] OTHER -> "none"

StageAfter == IF roundtrip.stage = "given" THEN "half" ELSE "done"

Marshall ==
    /\ NextCall = "marshall"
    /\ LET p == roundtrip.packet
           fits == IF roundtrip.module = "ttt" THEN CanMarshall(p)
                   ELSE ttcloud_CanMarshall(p)
           bytes == IF roundtrip.module = "ttt" THEN marshall(p)
                    ELSE ttcloud_marshall(p)
       IN  roundtrip' =
                IF fits
                THEN [roundtrip EXCEPT !.stage = StageAfter, !.buffer = bytes]
                ELSE [roundtrip EXCEPT !.stage = "raised"]
    /\ UNCHANGED <<respond, alive, connected_clients, time_slot, sleep_times,
                   aggregated_movement, aggregated_temperature, assignments,
                   inbox, requests, published, store, light_store, injected,
                   baselines, handled, radio, routed, evaluation, aggregator>>

Unmarshall ==
    /\ NextCall = "unmarshall"
    /\ LET parsed == IF roundtrip.module = "ttt"
                     THEN unmarshall(roundtrip.buffer)
                     ELSE ttcloud_unmarshall(roundtrip.buffer)
       IN  roundtrip' =
                IF IsPacket(parsed)
                THEN [roundtrip EXCEPT !.stage = StageAfter, !.packet = parsed]
                ELSE [roundtrip EXCEPT !.stage = "raised"]
    /\ UNCHANGED <<respond, alive, connected_clients, time_slot, sleep_times,
                   aggregated_movement, aggregated_temperature, assignments,
                   inbox, requests, published, store, light_store, injected,
                   baselines, handled, radio, routed, evaluation, aggregator>>

CodecInit == Booted /\ roundtrip \in CodecInputs /\ evaluation = Idle

CodecNext == Marshall \/ Unmarshall

CodecSpec == CodecInit /\ [][CodecNext]_vars

(* ------------------------------------------------------------------ *)
(* Payloads on receive/1 that are no packet, among frames of the       *)
(* bridge: a data packet with its tag replaced, cut short or with a    *)
(* byte too many, and the same bytes untouched.                        *)
(* ------------------------------------------------------------------ *)
RawData == marshall(SampleRev31(1, 101))

RawPayloads ==
    {RawData, [RawData EXCEPT ![9] = 6], SubSeq(RawData, 1, Len(RawData) - 1),
     RawData \o <<0>>, SubSeq(RawData, 1, 5)}

DecodeNext ==
    \/ \E packet \in {TTHeloPacket(MULTICAST, 101, 1), SampleRev31(1, 101),
                       SampleLight(1, 102)} :
            on_rx_done({1}, packet)
    \/ \E buffer \in RawPayloads : publish_raw(1, buffer)
    \/ CoordinatorOnMessage
    \/ \E faults \in NoFaults, prediction \in Nominal, tm \in Clock :
            LdeOnMessage(1, faults, prediction, tm)

DecodeSpec == Init /\ [][DecodeNext]_vars

(* ------------------------------------------------------------------ *)
(* A store that fails: during every evaluation each query and the      *)
(* write raise InfluxDBServerError, or the store cannot be reached.    *)
(* ------------------------------------------------------------------ *)
ServerErrors == {"power", "gravity", "stem_temperature", "write"}

FailingStore == {ServerErrors, {"unreachable"}}

FaultFrames ==
    UNION {{SampleRev31(r, 101), HotRev31(r, 101), SampleRev32(r, 101)} :
           r \in {MULTICAST, 1}}

FaultNext ==
    \/ \E packet \in FaultFrames : on_rx_done({1}, packet)
    \/ \E faults \in FailingStore, prediction \in Predictions, tm \in Clock :
            LdeOnMessage(1, faults, prediction, tm)
    \/ \E data \in MovementBaselines :
            AggregatorPublish("global/movement", data)

FaultSpec == Init /\ [][FaultNext]_vars

(* ------------------------------------------------------------------ *)
(* The gravity evaluation on its own: _evaluate_position and           *)
(* _evaluate_movement applied to a packet, the history the store       *)
(* returned for its sender and the movement baseline the engine holds. *)
(* ------------------------------------------------------------------ *)
(* the sample observation, tilted by dx and shaken by dz *)
Moved(dx, dz) ==
    [SampleRev31(MULTICAST, 101) EXCEPT
        !.gravity_x_mean = @ + dx, !.gravity_z_derivation = @ + dz]

GravityPackets == {Moved(dx, dz) : dx \in {-1, 0, 1}, dz \in {-1, 0, 1}}

(* histories of two and three equal points, and one that varies *)
GravityHistories ==
    {<<Observation, Observation>>,
     <<Observation, Observation, Observation>>,
     <<Observation, [Observation EXCEPT !.x_mean = 2],
       [Observation EXCEPT !.x_mean = 4]>>}

(* no baseline, the fleet standing still, the fleet moving *)
GravityBaselines ==
    {NoBaseline}
    \cup MovementBaselines
    \cup {[mean_x |-> 0, stdev_x |-> 0, mean_y |-> 0, stdev_y |-> 0,
           mean_z |-> -803, stdev_z |-> 2]}

GravityInputs ==
    {[stage |-> "given", packet |-> packet, rows |-> rows,
      movement |-> movement, position |-> "none", moving |-> "none"] :
        packet \in GravityPackets, rows \in GravityHistories,
        movement \in GravityBaselines}

EvaluateGravity ==
    /\ evaluation.stage = "given"
    /\ evaluation' =
            [evaluation EXCEPT
                !.stage = "done",
                !.position = evaluate_position(evaluation.packet,
                                               evaluation.rows),
                !.moving = evaluate_movement(evaluation.packet,
                                             evaluation.movement)]
    /\ UNCHANGED <<respond, alive, connected_clients, time_slot, sleep_times,
                   aggregated_movement, aggregated_temperature, assignments,
                   inbox, requests, published, store, light_store, injected,
                   baselines, handled, roundtrip, radio, routed, aggregator>>

GravityInit == Booted /\ roundtrip = Idle /\ evaluation \in GravityInputs

GravityNext == EvaluateGravity

GravitySpec == GravityInit /\ [][GravityNext]_vars

(* ------------------------------------------------------------------ *)
(* The data path with packets that set off each evaluation: the        *)
(* position off the talker's history, the movement off the fleet       *)
(* baseline, the stem probes apart, the air hot.  The store answers    *)
(* every call.                                                         *)
(* ------------------------------------------------------------------ *)
WarmStemRev31(receiver, sender) ==
    [SampleRev31(receiver, sender) EXCEPT !.temperature_heat_hot = 16000]

AnomalyFrames ==
    {SampleRev31(MULTICAST, 101), SampleRev31(1, 101), HotRev31(MULTICAST, 101),
     Moved(1, 0), Moved(0, 1), WarmStemRev31(MULTICAST, 101),
     [SampleRev32(MULTICAST, 101) EXCEPT !.gravity_x_mean = 1],
     [Moved(0, 1) EXCEPT !.air_temperature = CRITICAL_TEMPERATURE * 10]}

AnomalyNext ==
    \/ \E packet \in AnomalyFrames : on_rx_done({1}, packet)
    \/ \E prediction \in Predictions, tm \in Clock :
            LdeOnMessage(1, {}, prediction, tm)
    \/ \E data \in MovementBaselines :
            AggregatorPublish("global/movement", data)
    \/ \E data \in TemperatureBaselines :
            AggregatorPublish("global/temperature", data)

AnomalySpec == Init /\ [][AnomalyNext]_vars

(* ------------------------------------------------------------------ *)
(* _evaluate_battery on its own: what sleep_times holds before the     *)
(* call, the sender, the voltage history, whether the query fails, and *)
(* what the regression predicts.                                       *)
(* ------------------------------------------------------------------ *)
SleepTimes ==
    {EmptyMap} \cup {(101 :> v) : v \in {123, 600, 1300}}
    \cup {(102 :> 1300), (101 :> 123) @@ (102 :> 1300)}

BatteryInputs ==
    {[stage |-> "given", times |-> times, sender |-> sender, rows |-> rows,
      faults |-> faults, prediction |-> prediction,
      sleep_time |-> 0, sleep_times |-> times] :
        times \in SleepTimes, sender \in Talkers, rows \in Histories,
        faults \in {{}, {"power"}}, prediction \in Predictions}

EvaluateBattery ==
    /\ evaluation.stage = "given"
    /\ LET outcome == evaluate_battery(evaluation.times, evaluation.sender,
                                       evaluation.rows, evaluation.faults,
                                       evaluation.prediction)
       IN  evaluation' = [evaluation EXCEPT
                            !.stage = "done",
                            !.sleep_time = outcome.sleep_time,
                            !.sleep_times = outcome.sleep_times]
    /\ UNCHANGED <<respond, alive, connected_clients, time_slot, sleep_times,
                   aggregated_movement, aggregated_temperature, assignments,
                   inbox, requests, published, store, light_store, injected,
                   baselines, handled, roundtrip, radio, routed, aggregator>>

BatteryInit == Booted /\ roundtrip = Idle /\ evaluation \in BatteryInputs

BatteryNext == EvaluateBattery

BatterySpec == BatteryInit /\ [][BatteryNext]_vars

(* ------------------------------------------------------------------ *)
(* A talker whose battery keeps falling: one data packet after the     *)
(* other to a responding engine, the store holding its history, the    *)
(* fitted line predicting 3700 or, falling, -3700 for 48 hours on.     *)
(* ------------------------------------------------------------------ *)
Draining == {-3700, 3700}

on_rx_done_one_by_one(packet) ==
    /\ injected < MaxDrain
    /\ Settled(1)
    /\ injected' = injected + 1
    /\ inbox' = [inbox EXCEPT ![1] = Append(@, [topic |-> "receive",
                                                payload |-> packet])]
    /\ UNCHANGED <<respond, alive, connected_clients, time_slot, sleep_times,
                   aggregated_movement, aggregated_temperature, assignments,
                   requests, published, store, light_store, baselines,
                   handled, roundtrip, radio, routed, evaluation, aggregator>>

DrainInit ==
    /\ Init
    /\ respond = [g \in Gateways |-> g = 1]
    /\ store = [t \in Talkers |-> <<Observation, Observation>>]

DrainNext ==
    \/ on_rx_done_one_by_one(SampleRev31(1, 101))
    \/ \E prediction \in Draining, tm \in Clock :
            LdeOnMessage(1, {}, prediction, tm)

DrainSpec == DrainInit /\ [][DrainNext]_vars

(* ------------------------------------------------------------------ *)
(* ttt/util.py: generate_tt_address.  A MAC has 48 bits and the        *)
(* modulus is 10^10, so both are written in limbs of five decimal      *)
(* digits, the lowest first: <<m0, m1, m2>> is m0 + m1 * 10^5 +        *)
(* m2 * 10^10.                                                         *)
(* ------------------------------------------------------------------ *)
Limb == 100000

(* uuid.getnode(): any 48-bit number, 281474976710655 the greatest *)
Macs ==
    {<<m0, m1, m2>> : m0 \in {0, 67295, 67296, 99999},
                      m1 \in {0, 42948, 42949, 42950, 99999},
                      m2 \in {0, 1, 2813}}

(* get_mac() % 10000000000: the two low limbs *)
generate_tt_address(mac) == <<mac[1] % Limb, mac[2] % Limb>>

(* pack("I", address): 0 <= number <= 4294967295 = 67295 + 42949 * 10^5 *)
FitsUnsignedInt(address) ==
    \/ address[2] < 42949
    \/ address[2] = 42949 /\ address[1] <= 67295

GenerateAddress ==
    /\ evaluation.stage = "given"
    /\ LET address == generate_tt_address(evaluation.mac)
       IN  evaluation' = [evaluation EXCEPT
                            !.stage = "done",
                            !.address = address,
                            !.packed = FitsUnsignedInt(address)]
    /\ UNCHANGED <<respond, alive, connected_clients, time_slot, sleep_times,
                   aggregated_movement, aggregated_temperature, assignments,
                   inbox, requests, published, store, light_store, injected,
                   baselines, handled, roundtrip, radio, routed, aggregator>>

AddressInit ==
    /\ Booted /\ roundtrip = Idle
    /\ evaluation \in {[stage |-> "given", mac |-> mac, address |-> <<0, 0>>,
                         packed |-> TRUE] : mac \in Macs}

AddressNext == GenerateAddress

AddressSpec == AddressInit /\ [][AddressNext]_vars

(* ------------------------------------------------------------------ *)
(* The aggregator running next to the engines: it reads what the       *)
(* engines have written, a query of it may fail with a server error,   *)
(* and the engine of gateway 1 takes what it publishes.                *)
(* ------------------------------------------------------------------ *)
AggregatorFrames ==
    {SampleRev31(1, 101), Moved(0, 3), WarmStemRev31(MULTICAST, 101)}

QueryErrors == {{}, {"movement"}, {"temperature"}}

AggregatorNext ==
    \/ \E packet \in AggregatorFrames : on_rx_done({1}, packet)
    \/ \E prediction \in Nominal, tm \in Clock :
            LdeOnMessage(1, {}, prediction, tm)
    \/ \E faults \in QueryErrors : AggregatorCycle(faults)

AggregatorSpec == Init /\ [][AggregatorNext]_vars

(* ------------------------------------------------------------------ *)
(* Properties                                                          *)
(* ------------------------------------------------------------------ *)
(* the coordinator takes a step: it consumes the oldest request *)
CoordinatorStep == requests # <<>> /\ requests' = Tail(requests)

(* engine g takes a step: it consumes the oldest message held for it *)
EngineStep(g) == inbox[g] # <<>> /\ inbox'[g] = Tail(inbox[g])

IsCloudHeloTo(message, t) ==
    /\ message.topic = "command"
    /\ message.payload.packet_type = 65
    /\ message.payload.receiver_address = t

IsCommand1To(message, t) ==
    /\ message.topic = "command"
    /\ message.payload.packet_type = 66
    /\ message.payload.receiver_address = t

EmitsCloudHelo(g, t) ==
    \E i \in DOMAIN published[g] : IsCloudHeloTo(published[g][i], t)

Handled(g, message) == \E i \in DOMAIN handled[g] : handled[g][i] = message

HandledHeloFrom(g, t) ==
    \E i \in DOMAIN handled[g] :
        /\ handled[g][i].topic = "receive"
        /\ handled[g][i].payload.packet_type = 5
        /\ handled[g][i].payload.sender_address = t

(* C1: the coordinator is monotone.  No step changes or removes an      *)
(* assignment, and a request for a talker that is assigned to another   *)
(* gateway is answered connect=false on the requester's response topic. *)
C1_Monotone ==
    [][/\ \A t \in DOMAIN assignments :
            t \in DOMAIN assignments' /\ assignments'[t] = assignments[t]
       /\ CoordinatorStep =>
            LET request == Head(requests)
            IN  (/\ request.tt_address \in DOMAIN assignments
                 /\ assignments[request.tt_address] # request.cloud_address)
                => inbox'[request.cloud_address] =
                        Append(inbox[request.cloud_address],
                               HeloResponse(request.tt_address, FALSE))]_vars

(* a talker is assigned, and another gateway has been refused for it *)
C1_Witness ==
    \E t \in DOMAIN assignments, g \in Gateways :
        /\ assignments[t] # g
        /\ Handled(g, HeloResponse(t, FALSE))

(* C2: a CloudHelo addressed to a talker is only ever emitted by the   *)
(* gateway the coordinator assigned the talker to, the one whose       *)
(* request it handled first; hence by one gateway at most.             *)
C2_SingleEmitter ==
    \A g \in Gateways, t \in Talkers :
        EmitsCloudHelo(g, t) =>
            /\ t \in DOMAIN assignments /\ assignments[t] = g
            /\ \A other \in Gateways \ {g} : ~EmitsCloudHelo(other, t)

(* two gateways heard the talker's Helo and both asked; one emitted the *)
(* CloudHelo, the other was refused and stayed silent                   *)
C2_Witness ==
    \E t \in Talkers, g \in Gateways, other \in Gateways :
        /\ g # other
        /\ HandledHeloFrom(g, t) /\ HandledHeloFrom(other, t)
        /\ EmitsCloudHelo(g, t)
        /\ Handled(other, HeloResponse(t, FALSE))
        /\ ~EmitsCloudHelo(other, t)

Command1sTo(g, t) ==
    {i \in DOMAIN published[g] : IsCommand1To(published[g][i], t)}

SlotSent(g, i) == published[g][i].payload.time_slot

(* C3 as stated: every Command1 a gateway sends to a talker carries the *)
(* time_slot of the first Command1 it sent to that talker.              *)
C3_SameSlotAsFirst ==
    \A g \in Gateways, t \in Talkers :
        \A i \in Command1sTo(g, t), j \in Command1sTo(g, t) :
            SlotSent(g, i) = SlotSent(g, j)

(* C3, amended: a slot other than 0 that a gateway sent to a talker is  *)
(* the talker's slot in connected_clients from then on, so every later  *)
(* Command1 to that talker carries it; only a Command1 sent before the  *)
(* talker was registered carries 0.                                     *)
C3_SlotKept ==
    \A g \in Gateways, t \in Talkers :
        \A i \in Command1sTo(g, t) :
            /\ SlotSent(g, i) # 0 =>
                    /\ t \in DOMAIN connected_clients[g]
                    /\ connected_clients[g][t] = SlotSent(g, i)
            /\ \A j \in Command1sTo(g, t) :
                    (i < j /\ SlotSent(g, i) # 0) =>
                        SlotSent(g, j) = SlotSent(g, i)

(* a gateway answered a registered talker twice, both times with the *)
(* talker's slot                                                     *)
C3_Witness ==
    \E g \in Gateways, t \in Talkers :
        \E i \in Command1sTo(g, t), j \in Command1sTo(g, t) :
            /\ i < j
            /\ SlotSent(g, i) # 0
            /\ SlotSent(g, j) = SlotSent(g, i)

(* C8: the coordinator answers every request with one response, on the *)
(* requesting gateway's response topic, naming the requested talker,   *)
(* with connect true exactly when the talker was unassigned or already *)
(* assigned to the requester; no other topic receives anything.        *)
C8_OneResponse ==
    [][CoordinatorStep =>
        LET request == Head(requests)
            connect ==
                \/ request.tt_address \notin DOMAIN assignments
                \/ assignments[request.tt_address] = request.cloud_address
        IN  \A g \in Gateways :
                inbox'[g] =
                    IF g = request.cloud_address
                    THEN Append(inbox[g],
                                [topic |-> "helo/response",
                                 payload |->
                                    [tt_address |-> request.tt_address,
                                     connect |-> connect]])
                    ELSE inbox[g]]_vars

(* the winner asked again and was accepted again, and a later claimant *)
(* was refused                                                         *)
C8_Witness ==
    \E t \in Talkers, g \in Gateways, other \in Gateways :
        /\ g # other
        /\ Cardinality({i \in DOMAIN handled[g] :
                            handled[g][i] = HeloResponse(t, TRUE)}) >= 2
        /\ \E u \in Talkers : Handled(other, HeloResponse(u, FALSE))

Command1s(g) ==
    {i \in DOMAIN published[g] :
        /\ published[g][i].topic = "command"
        /\ published[g][i].payload.packet_type = 66}

(* C6: every Command1 an engine emits has sleep_interval >= 300. *)
C6_SleepAtLeastMin ==
    \A g \in Gateways : \A i \in Command1s(g) :
        published[g][i].payload.sleep_interval >= 300

(* the regression took the talker's stored sleep time under 300 and the *)
(* Command1 sent for it carries 300                                     *)
C6_Witness ==
    \E g \in Gateways : \E i \in Command1s(g) :
        LET reply == published[g][i].payload
        IN  /\ reply.receiver_address \in DOMAIN sleep_times[g]
            /\ sleep_times[g][reply.receiver_address] < 300
            /\ reply.sleep_interval = 300

(* C7: every Command1 an engine emits has heating = floor(sleep_interval / 6). *)
C7_HeatingIsSixth ==
    \A g \in Gateways : \A i \in Command1s(g) :
        LET reply == published[g][i].payload
        IN  /\ 6 * reply.heating <= reply.sleep_interval
            /\ reply.sleep_interval < 6 * reply.heating + 6

(* a Command1 whose sleep_interval is no multiple of 6 and rounds up *)
C7_Witness ==
    \E g \in Gateways : \E i \in Command1s(g) :
        published[g][i].payload.sleep_interval % 6 >= 3

RoundTripOver == roundtrip.stage \in {"done", "raised"}

(* the tags the wire format defines and the payload sizes of their *)
(* variants, as the format description gives them                  *)
KnownTags == {5, 65, 66, 69, 73, 74, 77}

PayloadSize(module, tag) ==
    CASE tag = 5 -> 1
      [] tag = 65 -> 5
      [] tag = 66 -> 13
      [] tag = 73 -> 55
      [] tag = 74 -> 7
      [] tag = 77 -> 51
      [] tag = 69 -> IF module = "ttt" THEN 39 ELSE 51

WellFormed(module, buffer) ==
    /\ Len(buffer) >= 9
    /\ buffer[9] \in KnownTags
    /\ Len(buffer) = 9 + PayloadSize(module, buffer[9])

(* C4 as stated: a valid packet of any variant whose fields are within *)
(* their wire widths, marshalled and unmarshalled, comes back equal to  *)
(* itself.                                                              *)
C4_UnmarshallMarshall ==
    (/\ RoundTripOver
     /\ roundtrip.first = "marshall"
     /\ WithinWireWidths(roundtrip.module, roundtrip.given_packet)) =>
        /\ roundtrip.stage = "done"
        /\ PacketEq(roundtrip.packet, roundtrip.given_packet)

(* C4, amended: the same, for packets none of whose readings is a NaN; *)
(* a light packet with a NaN reading comes back with every field the   *)
(* same and still compares unequal.                                    *)
C4_ExceptNaN ==
    (/\ RoundTripOver
     /\ roundtrip.first = "marshall"
     /\ WithinWireWidths(roundtrip.module, roundtrip.given_packet)) =>
        /\ roundtrip.stage = "done"
        /\ roundtrip.packet = roundtrip.given_packet
        /\ (\A v \in Floats(roundtrip.given_packet) : ~IsNaN(v)) =>
                PacketEq(roundtrip.packet, roundtrip.given_packet)

(* a revision 3.2 data packet with every field different has made the *)
(* round trip                                                         *)
C4_Witness ==
    /\ roundtrip.stage = "done"
    /\ roundtrip.first = "marshall"
    /\ roundtrip.module = "ttt"
    /\ roundtrip.given_packet.packet_type = 77
    /\ roundtrip.given_packet.temperature_reference[1]
            # roundtrip.given_packet.temperature_reference[2]
    /\ Len(roundtrip.buffer) = 60
    /\ PacketEq(roundtrip.packet, roundtrip.given_packet)

(* C5: a buffer with a known tag and the payload length of its variant, *)
(* unmarshalled and marshalled, comes back byte for byte, tag included. *)
C5_MarshallUnmarshall ==
    (/\ RoundTripOver
     /\ roundtrip.first = "unmarshall"
     /\ WellFormed(roundtrip.module, roundtrip.given_buffer)) =>
        /\ roundtrip.stage = "done"
        /\ roundtrip.buffer = roundtrip.given_buffer
        /\ roundtrip.buffer[9] = roundtrip.given_buffer[9]

IsMulticastHeloFrom(message, t) ==
    /\ message.topic = "receive"
    /\ message.payload.packet_type = 5
    /\ message.payload.receiver_address = MULTICAST
    /\ message.payload.sender_address = t

(* gateway g has received a multicast Helo of talker t *)
HeloReceived(g, t) ==
    \/ \E i \in DOMAIN inbox[g] : IsMulticastHeloFrom(inbox[g][i], t)
    \/ \E i \in DOMAIN handled[g] : IsMulticastHeloFrom(handled[g][i], t)

(* fair delivery has nothing left to deliver: the coordinator has no   *)
(* request to handle and every engine whose network thread runs has    *)
(* handled all it was sent                                             *)
Quiescent ==
    /\ requests = <<>>
    /\ \A g \in Gateways : alive[g] => inbox[g] = <<>>

(* the k-th talker a gateway registered holds slot k *)
SlotsInOrder ==
    \A g \in Gateways :
        /\ time_slot[g] = Cardinality(DOMAIN connected_clients[g]) + 1
        /\ \A t \in DOMAIN connected_clients[g] :
                connected_clients[g][t] \in 1..(time_slot[g] - 1)
        /\ \A t \in DOMAIN connected_clients[g],
              u \in DOMAIN connected_clients[g] :
                connected_clients[g][t] = connected_clients[g][u] => t = u

(* C10: once fair delivery has delivered everything, a responding       *)
(* gateway that received a multicast Helo of a talker has emitted a     *)
(* CloudHelo to the talker and registered it, unless the coordinator    *)
(* gave the talker to another gateway; and the first talker a gateway   *)
(* registers holds slot 1, the second slot 2.                           *)
C10_HeloLeadsToCloudHelo ==
    /\ SlotsInOrder
    /\ Quiescent =>
        \A g \in Gateways, t \in Talkers :
            (HeloReceived(g, t) /\ respond[g]) =>
                \/ EmitsCloudHelo(g, t) /\ t \in DOMAIN connected_clients[g]
                \/ t \in DOMAIN assignments /\ assignments[t] # g

(* engine g accepts the packet of a receive message: it is addressed to *)
(* every gateway or to g                                                *)
AcceptedBy(g, message) ==
    /\ message.topic = "receive"
    /\ message.payload.receiver_address \in {MULTICAST, g}

(* engine g handles an accepted Helo in this step *)
HandlesHelo(g) ==
    /\ EngineStep(g)
    /\ AcceptedBy(g, Head(inbox[g]))
    /\ Head(inbox[g]).payload.packet_type = 5

(* C11 as stated: handling an accepted Helo, the engine publishes exactly *)
(* one helo/request with its own address and the Helo's sender, and       *)
(* nothing on its command topic.                                          *)
C11_OneRequestPerHelo ==
    [][\A g \in Gateways :
        HandlesHelo(g) =>
            /\ requests' =
                    Append(requests,
                           [cloud_address |-> g,
                            tt_address |-> Head(inbox[g]).payload.sender_address])
            /\ published'[g] = published[g]]_vars

(* C11, amended: the same for an engine that responds; an engine in      *)
(* observer mode publishes no helo/request and nothing on its command    *)
(* topic.                                                                *)
C11_OneRequestIfResponding ==
    [][\A g \in Gateways :
        HandlesHelo(g) =>
            /\ requests' =
                    IF respond[g]
                    THEN Append(requests,
                                [cloud_address |-> g,
                                 tt_address |->
                                    Head(inbox[g]).payload.sender_address])
                    ELSE requests
            /\ published'[g] = published[g]]_vars

(* a responding engine has handled the Helo of talker 101, its request is *)
(* the one the coordinator holds, and the engine has published nothing    *)
C11_Witness ==
    \E g \in Gateways :
        /\ respond[g]
        /\ handled[g] = <<[topic |-> "receive",
                           payload |-> TTHeloPacket(MULTICAST, 101, 1)]>>
        /\ requests = <<[cloud_address |-> g, tt_address |-> 101]>>
        /\ published[g] = <<>>

(* the accepted data packets of talker t that engine g has handled *)
DataHandledFrom(g, t) ==
    {i \in DOMAIN handled[g] :
        /\ AcceptedBy(g, handled[g][i])
        /\ IsData(handled[g][i].payload)
        /\ handled[g][i].payload.sender_address = t}

(* C12: a responding engine has published one Command1 to a talker for *)
(* every accepted data packet of the talker it has handled, whatever   *)
(* baselines it holds and whatever history the store holds.            *)
C12_OneCommand1PerData ==
    \A g \in Gateways, t \in Talkers :
        respond[g] =>
            Cardinality(Command1sTo(g, t)) = Cardinality(DataHandledFrom(g, t))

(* the replies among the publications of engine g the broker has routed *)
RoutedCommands(g) ==
    SelectSeq(SubSeq(published[g], 1, routed[g]),
              LAMBDA message : message.topic = "command")

(* C13: every reply of engine g the broker has routed has been written *)
(* to the radio by the bridge of gateway g, in order, as FF FF 00 00    *)
(* followed by the marshalled packet.                                   *)
C13_RepliesReachRadio ==
    \A g \in Gateways :
        radio[g] = [i \in 1..Len(RoutedCommands(g)) |->
                        <<255, 255, 0, 0>>
                            \o marshall(RoutedCommands(g)[i].payload)]

(* a history of two or more points whose standard deviation is 0: the *)
(* points are all the same                                            *)
Constant(xs) == Len(xs) >= 2 /\ \A i \in DOMAIN xs : xs[i] = xs[1]

(* C14: with a history whose standard deviation is 0 on an axis, a      *)
(* position that differs from the mean on that axis is an anomaly, and  *)
(* a position equal to the mean on every axis of such a history is      *)
(* none; the same for the movement against a baseline whose standard    *)
(* deviation is 0.                                                      *)
C14_ZeroDeviation ==
    evaluation.stage = "done" =>
        LET packet == evaluation.packet
            xs == Column(evaluation.rows, "x_mean")
            ys == Column(evaluation.rows, "y_mean")
            zs == Column(evaluation.rows, "z_mean")
            movement == evaluation.movement
        IN  /\ (Constant(xs) /\ packet.gravity_x_mean # xs[1])
                    => evaluation.position = "anomaly"
            /\ (Constant(ys) /\ packet.gravity_y_mean # ys[1])
                    => evaluation.position = "anomaly"
            /\ (Constant(zs) /\ packet.gravity_z_mean # zs[1])
                    => evaluation.position = "anomaly"
            /\ (/\ Constant(xs) /\ packet.gravity_x_mean = xs[1]
                /\ Constant(ys) /\ packet.gravity_y_mean = ys[1]
                /\ Constant(zs) /\ packet.gravity_z_mean = zs[1])
                    => evaluation.position = "normal"
            /\ movement # NoBaseline =>
                /\ (movement.stdev_x = 0
                    /\ packet.gravity_x_derivation # movement.mean_x)
                        => evaluation.moving = "anomaly"
                /\ (movement.stdev_y = 0
                    /\ packet.gravity_y_derivation # movement.mean_y)
                        => evaluation.moving = "anomaly"
                /\ (movement.stdev_z = 0
                    /\ packet.gravity_z_derivation # movement.mean_z)
                        => evaluation.moving = "anomaly"
                /\ (/\ movement.stdev_x = 0 /\ movement.stdev_y = 0
                    /\ movement.stdev_z = 0
                    /\ packet.gravity_x_derivation = movement.mean_x
                    /\ packet.gravity_y_derivation = movement.mean_y
                    /\ packet.gravity_z_derivation = movement.mean_z)
                        => evaluation.moving = "normal"

(* a packet one unit off a constant history on the x axis was flagged, *)
(* and its movement, equal to a baseline without deviation, was not    *)
C14_Witness ==
    /\ evaluation.stage = "done"
    /\ Constant(Column(evaluation.rows, "x_mean"))
    /\ evaluation.packet.gravity_x_mean = evaluation.rows[1].x_mean + 1
    /\ evaluation.position = "anomaly"
    /\ evaluation.movement \in MovementBaselines
    /\ evaluation.packet.gravity_z_derivation = evaluation.movement.mean_z
    /\ evaluation.moving = "normal"

(* the accepted data packets at or above the critical air temperature *)
(* that engine g has handled                                          *)
HotHandled(g) ==
    {i \in DOMAIN handled[g] :
        /\ AcceptedBy(g, handled[g][i])
        /\ IsData(handled[g][i].payload)
        /\ handled[g][i].payload.air_temperature >= 500}

AirAnomalies(g) ==
    {i \in DOMAIN published[g] :
        published[g][i].topic = "anomaly/air_temperature"}

(* C15: an engine has published on anomaly/air_temperature once for     *)
(* every accepted data packet with air_temperature >= 500 it has        *)
(* handled and for no other packet, each time the packet itself, and    *)
(* the reply that follows carries sleep_interval 300 and heating 50.    *)
C15_CriticalAirTemperature ==
    \A g \in Gateways :
        /\ Cardinality(AirAnomalies(g)) = Cardinality(HotHandled(g))
        /\ \A i \in AirAnomalies(g) :
            /\ IsData(published[g][i].payload)
            /\ published[g][i].payload.air_temperature >= 500
            /\ respond[g] =>
                /\ i + 1 \in DOMAIN published[g]
                /\ IsCommand1To(published[g][i + 1],
                                published[g][i].payload.sender_address)
                /\ published[g][i + 1].payload.sleep_interval = 300
                /\ published[g][i + 1].payload.heating = 50

(* the first call of the round trip has returned or raised *)
Called == roundtrip.stage \in {"half", "done", "raised"}

HasUnknownTag(buffer) == Len(buffer) >= 9 /\ buffer[9] \notin KnownTags

(* C16: unmarshall of a buffer whose tag is none of the known tags     *)
(* raises a decoding error and returns no packet, whatever the payload. *)
C16_UnknownTagRaises ==
    (/\ Called
     /\ roundtrip.first = "unmarshall"
     /\ HasUnknownTag(roundtrip.given_buffer)) =>
        /\ roundtrip.stage = "raised"
        /\ roundtrip.packet = NoPacket

(* a buffer that is a Command1 but for its tag, 6, has been refused *)
C16_Witness ==
    /\ roundtrip.stage = "raised"
    /\ roundtrip.first = "unmarshall"
    /\ roundtrip.module = "ttt"
    /\ Len(roundtrip.given_buffer) = 22
    /\ roundtrip.given_buffer[9] = 6

(* a known tag with a payload that has not the size of its variant, or *)
(* less than a header                                                  *)
IsMissized(module, buffer) ==
    \/ Len(buffer) < 9
    \/ /\ buffer[9] \in KnownTags
       /\ Len(buffer) # 9 + PayloadSize(module, buffer[9])

(* C17: unmarshall of a buffer shorter than the 9 byte header, or with *)
(* a known tag and a payload shorter or longer than the fixed size of  *)
(* the tag's variant, raises a decoding error and returns no packet.   *)
C17_SizeMismatchRaises ==
    (/\ Called
     /\ roundtrip.first = "unmarshall"
     /\ IsMissized(roundtrip.module, roundtrip.given_buffer)) =>
        /\ roundtrip.stage = "raised"
        /\ roundtrip.packet = NoPacket

(* a Command1 with one byte after its payload has been refused *)
C17_Witness ==
    /\ roundtrip.stage = "raised"
    /\ roundtrip.first = "unmarshall"
    /\ roundtrip.module = "ttt"
    /\ Len(roundtrip.given_buffer) = 23
    /\ roundtrip.given_buffer[9] = 66

(* C18: each sample buffer unmarshals to exactly the expected packet *)
(* and each expected packet marshals to exactly the sample buffer, in *)
(* ttt/packets.py and in ttcloud/packets.py with the packets of the   *)
(* tests: the fields lie after the 9 byte header in wire order,       *)
(* little-endian, with fixed widths.                                  *)
C18_SamplesDecodeAndEncode ==
    \A m \in {"ttt", "ttcloud"} : \A i \in 1..6 :
        /\ (/\ Called
            /\ roundtrip.first = "unmarshall"
            /\ roundtrip.module = m
            /\ roundtrip.given_buffer = SAMPLE_RAW[i]) =>
                /\ roundtrip.stage # "raised"
                /\ PacketEq(roundtrip.packet, SamplePackets(m)[i])
        /\ (/\ Called
            /\ roundtrip.first = "marshall"
            /\ roundtrip.module = m
            /\ roundtrip.given_packet = SamplePackets(m)[i]) =>
                /\ roundtrip.stage # "raised"
                /\ roundtrip.buffer = SAMPLE_RAW[i]

(* the sample Command1 buffer has been unmarshalled to command 24,   *)
(* sleep 3600, heating 600, slot length 45 and slot 2, and marshalled *)
(* back to the same 22 bytes                                          *)
C18_Witness ==
    /\ roundtrip.stage = "done"
    /\ roundtrip.first = "unmarshall"
    /\ roundtrip.module = "ttt"
    /\ roundtrip.given_buffer = SAMPLE_RAW[5]
    /\ roundtrip.packet.sender_address = SAMPLE_CLOUD
    /\ roundtrip.packet.command = 24
    /\ roundtrip.packet.sleep_interval = 3600
    /\ roundtrip.packet.heating = 600
    /\ roundtrip.packet.time_slot_length = 45
    /\ roundtrip.packet.time_slot = 2
    /\ roundtrip.buffer = SAMPLE_RAW[5]

(* C20: every slot stored in connected_clients is within 1..255 and   *)
(* every Command1 an engine has published carries a slot within       *)
(* 0..255, however many talkers have registered at the gateway.       *)
C20_SlotsFitOneByte ==
    \A g \in Gateways :
        /\ \A a \in DOMAIN connected_clients[g] :
                connected_clients[g][a] \in 1..255
        /\ \A i \in DOMAIN published[g] :
                (/\ published[g][i].topic = "command"
                 /\ published[g][i].payload.packet_type = 66) =>
                    published[g][i].payload.time_slot \in 0..255

(* what the engine of gateway g holds, by the number of the talker *)
EngineState(g) ==
    [slots |-> [n \in {n \in 1..MaxCrowd :
                        CrowdTalker(g, n) \in DOMAIN connected_clients[g]} |->
                    connected_clients[g][CrowdTalker(g, n)]],
     time_slot |-> time_slot[g],
     sleep_times |-> [n \in {n \in 1..MaxCrowd :
                        CrowdTalker(g, n) \in DOMAIN sleep_times[g]} |->
                    sleep_times[g][CrowdTalker(g, n)]],
     aggregated_movement |-> aggregated_movement[g],
     aggregated_temperature |-> aggregated_temperature[g],
     written |-> [n \in 1..MaxCrowd |-> store[CrowdTalker(g, n)]]]

(* C19: delivered the same messages, and each done with them, the    *)
(* observer has published nothing on command/<own>, and its state and *)
(* its observation writes are those of the responding engine.         *)
C19_ObserverSameState ==
    (/\ Len(handled[1]) + Len(inbox[1]) = Len(handled[2]) + Len(inbox[2])
     /\ \A g \in Twins : Settled(g)) =>
        /\ \A i \in DOMAIN published[2] : published[2][i].topic # "command"
        /\ EngineState(2) = EngineState(1)

(* the step is the engine of g taking a receive message whose payload *)
(* does not decode                                                    *)
DropsUndecodable(g) ==
    /\ alive[g]
    /\ inbox[g] # <<>>
    /\ handled'[g] = Append(handled[g], Head(inbox[g]))
    /\ Head(inbox[g]).topic = "receive"
    /\ "raw" \in DOMAIN Head(inbox[g])
    /\ \/ Len(Head(inbox[g]).raw) < 9
       \/ Head(inbox[g]).raw[9] \notin KnownTags
       \/ Len(Head(inbox[g]).raw) # 9 + PayloadSize("ttt", Head(inbox[g]).raw[9])

(* C21: a receive message whose payload does not decode is dropped:   *)
(* nothing is published, nothing written, connected_clients,          *)
(* time_slot and sleep_times stay as they are, and the engine goes on *)
(* to handle the messages that follow.                                *)
C21_DecodeErrorDropped ==
    [][\A g \in Gateways :
        DropsUndecodable(g) =>
            /\ published' = published
            /\ requests' = requests
            /\ store' = store
            /\ light_store' = light_store
            /\ connected_clients' = connected_clients
            /\ time_slot' = time_slot
            /\ sleep_times' = sleep_times
            /\ alive'[g]]_vars

(* engine g handles an accepted data packet in this step *)
HandlesData(g) ==
    /\ alive[g]
    /\ EngineStep(g)
    /\ Head(inbox[g]).topic = "receive"
    /\ "payload" \in DOMAIN Head(inbox[g])
    /\ AcceptedBy(g, Head(inbox[g]))
    /\ IsData(Head(inbox[g]).payload)

(* what engine g publishes in this step *)
PublishedNow(g) ==
    SubSeq(published'[g], Len(published[g]) + 1, Len(published'[g]))

(* C22: with every query and the write failing, the evaluation of a   *)
(* data packet is not aborted: nothing is written, no gravity or stem *)
(* temperature anomaly is published, and a responding engine ends the *)
(* step with its Command1, sleep_interval 600 (300 with an air        *)
(* temperature anomaly), as with an empty history.                    *)
C22_StoreFailureNeverAborts ==
    [][\A g \in Gateways :
        HandlesData(g) =>
            LET packet == Head(inbox[g]).payload
                new == PublishedNow(g)
            IN  /\ alive'[g]
                /\ store' = store
                /\ sleep_times' = sleep_times
                /\ \A i \in DOMAIN new :
                        new[i].topic \notin {"anomaly/gravity",
                                             "anomaly/stem_temperature"}
                /\ respond[g] =>
                        /\ new # <<>>
                        /\ IsCommand1To(new[Len(new)], packet.sender_address)
                        /\ new[Len(new)].payload.sleep_interval =
                                IF packet.air_temperature >= 500 THEN 300
                                ELSE 600]_vars

(* C23: an engine starts with no talker and time_slot 1; after every  *)
(* step the slots it holds are exactly 1..n for its n talkers (so no  *)
(* two talkers share one), time_slot is n + 1 and has not decreased,  *)
(* the talkers it held keep their slots and a new one has the slot    *)
(* that was next.                                                     *)
C23_SlotsDenseInOrder ==
    /\ \A g \in Gateways :
            time_slot[g] = 1 /\ DOMAIN connected_clients[g] = {}
    /\ [][\A g \in Gateways :
            LET before == connected_clients[g]
                after == connected_clients'[g]
                n == Cardinality(DOMAIN after)
            IN  /\ {after[a] : a \in DOMAIN after} = 1..n
                /\ time_slot'[g] = n + 1
                /\ time_slot'[g] >= time_slot[g]
                /\ \A a \in DOMAIN before :
                        a \in DOMAIN after /\ after[a] = before[a]
                /\ \A a \in DOMAIN after \ DOMAIN before :
                        after[a] = time_slot[g]]_vars

(* a gateway holds both talkers, the first by the coordinator's verdict *)
(* and the second by a unicast packet, with slots 1 and 2               *)
C23_Witness ==
    \E g \in Gateways :
        /\ connected_clients[g] = (101 :> 1) @@ (102 :> 2)
        /\ time_slot[g] = 3
        /\ \E i \in DOMAIN handled[g] :
                /\ handled[g][i].topic = "helo/response"
                /\ handled[g][i].payload.tt_address = 101
                /\ handled[g][i].payload.connect

(* the message announces talker t to gateway g: a packet of t addressed *)
(* to g, or the coordinator's verdict that g connects t                 *)
Announces(g, message, t) ==
    \/ /\ message.topic = "receive"
       /\ message.payload.receiver_address = g
       /\ message.payload.sender_address = t
    \/ /\ message.topic = "helo/response"
       /\ message.payload.connect
       /\ message.payload.tt_address = t

(* C24: an engine that holds a slot for talker t and handles another *)
(* announcement of t leaves the slot of t and time_slot as they are.  *)
C24_RegistrationIdempotent ==
    [][\A g \in Gateways, t \in Talkers :
        (/\ EngineStep(g)
         /\ alive[g]
         /\ t \in DOMAIN connected_clients[g]
         /\ Announces(g, Head(inbox[g]), t)) =>
            /\ t \in DOMAIN connected_clients'[g]
            /\ connected_clients'[g][t] = connected_clients[g][t]
            /\ time_slot'[g] = time_slot[g]]_vars

(* a gateway has handled two verdicts to connect talker 101 and holds *)
(* it with slot 1, the next slot being 2                              *)
C24_Witness ==
    \E g \in Gateways :
        /\ Len(handled[g]) = 4
        /\ handled[g][3].topic = "helo/response"
        /\ handled[g][4].topic = "helo/response"
        /\ Announces(g, handled[g][3], 101)
        /\ Announces(g, handled[g][4], 101)
        /\ connected_clients[g] = (101 :> 1)
        /\ time_slot[g] = 2

(* C25: the Command1 an engine publishes for a data packet carries the *)
(* slot connected_clients holds for its receiver when the reply is      *)
(* made, that is after a unicast sender has been registered; it carries *)
(* 0 exactly when the receiver is not registered then, which is a       *)
(* packet to multicast from a talker the gateway does not hold.         *)
C25_SlotCopiedIntoReply ==
    [][\A g \in Gateways :
        HandlesData(g) =>
            LET packet == Head(inbox[g]).payload
                new == PublishedNow(g)
                held == connected_clients'[g]
            IN  \A i \in DOMAIN new :
                    (new[i].topic = "command"
                        /\ new[i].payload.packet_type = 66) =>
                        LET t == new[i].payload.receiver_address
                            slot == new[i].payload.time_slot
                        IN  /\ t = packet.sender_address
                            /\ t \in DOMAIN held => slot = held[t]
                            /\ (slot = 0) <=> (t \notin DOMAIN held)
                            /\ (slot = 0) =>
                                    packet.receiver_address = MULTICAST]_vars

(* a gateway answered talker 101 with slot 0 while it did not hold it *)
(* and with slot 1 after the talker's first unicast packet            *)
C25_Witness ==
    \E g \in Gateways :
        /\ connected_clients[g] = (101 :> 1)
        /\ \E i \in Command1sTo(g, 101), j \in Command1sTo(g, 101) :
                /\ i < j
                /\ SlotSent(g, i) = 0
                /\ SlotSent(g, j) = 1
        /\ \A i \in DOMAIN handled[g] : handled[g][i].topic = "receive"

(* engine g takes a packet from receive/<g> in this step *)
TakesPacket(g) ==
    /\ alive[g]
    /\ EngineStep(g)
    /\ Head(inbox[g]).topic = "receive"
    /\ "payload" \in DOMAIN Head(inbox[g])

(* C26: a packet addressed neither to multicast nor to the gateway is *)
(* dropped: the engine publishes nothing, writes nothing and keeps    *)
(* connected_clients, time_slot and sleep_times; a packet to          *)
(* multicast from a talker it does not hold is handled (its Helo      *)
(* goes to the coordinator, its observation to the store) and the     *)
(* talker gets no slot.                                               *)
C26_ForeignDroppedMulticastUnslotted ==
    [][\A g \in Gateways :
        TakesPacket(g) =>
            LET packet == Head(inbox[g]).payload
                sender == packet.sender_address
            IN  /\ packet.receiver_address \notin {MULTICAST, g} =>
                    /\ published' = published
                    /\ requests' = requests
                    /\ store' = store
                    /\ light_store' = light_store
                    /\ connected_clients' = connected_clients
                    /\ time_slot' = time_slot
                    /\ sleep_times' = sleep_times
                    /\ alive' = alive
                /\ (/\ packet.receiver_address = MULTICAST
                    /\ sender \notin DOMAIN connected_clients[g]) =>
                    /\ connected_clients'[g] = connected_clients[g]
                    /\ time_slot'[g] = time_slot[g]
                    /\ (packet.packet_type = 5 /\ respond[g]) =>
                            requests' = Append(requests,
                                               HeloRequest(g, sender))
                    /\ (IsData(packet) /\ alive'[g]) =>
                            store'[sender] =
                                Append(store[sender], to_influx_json(packet))]_vars

(* a gateway has handled a data packet addressed to another gateway *)
(* and a data packet to multicast, and holds no talker              *)
C26_Witness ==
    \E g \in Gateways :
        /\ Len(handled[g]) = 2
        /\ handled[g][1].topic = "receive"
        /\ handled[g][1].payload.receiver_address \in Gateways \ {g}
        /\ IsData(handled[g][1].payload)
        /\ handled[g][2].topic = "receive"
        /\ handled[g][2].payload.receiver_address = MULTICAST
        /\ IsData(handled[g][2].payload)
        /\ alive[g]
        /\ DOMAIN connected_clients[g] = {}
        /\ time_slot[g] = 1

(* C27 as stated: a talker a gateway holds in connected_clients is    *)
(* assigned to that gateway by the coordinator, so no talker is held  *)
(* by two gateways.                                                   *)
C27_HeldWhereAssigned ==
    /\ \A g \in Gateways : \A t \in DOMAIN connected_clients[g] :
            t \in DOMAIN assignments /\ assignments[t] = g
    /\ \A g \in Gateways, h \in Gateways :
            g # h =>
                DOMAIN connected_clients[g] \cap DOMAIN connected_clients[h]
                    = {}

(* gateway g has handled a packet of talker t addressed to g *)
SentUnicast(g, t) ==
    \E i \in DOMAIN handled[g] :
        /\ handled[g][i].topic = "receive"
        /\ handled[g][i].payload.receiver_address = g
        /\ handled[g][i].payload.sender_address = t

(* C27, amended: a talker a gateway holds without having had a unicast *)
(* packet from it is assigned to that gateway by the coordinator, so   *)
(* of two gateways that hold the same talker at least one holds it     *)
(* for a unicast packet.                                               *)
C27_HeldByVerdictWhereAssigned ==
    /\ \A g \in Gateways : \A t \in DOMAIN connected_clients[g] :
            ~SentUnicast(g, t) =>
                t \in DOMAIN assignments /\ assignments[t] = g
    /\ \A g \in Gateways, h \in Gateways :
            g # h =>
                \A t \in DOMAIN connected_clients[g]
                            \cap DOMAIN connected_clients[h] :
                    SentUnicast(g, t) \/ SentUnicast(h, t)

(* gateway 1 holds talker 101 by the coordinator's verdict and gateway *)
(* 2 holds it for a unicast packet                                     *)
C27_Witness ==
    /\ 101 \in DOMAIN connected_clients[1]
    /\ ~SentUnicast(1, 101)
    /\ assignments = (101 :> 1)
    /\ 101 \in DOMAIN connected_clients[2]
    /\ SentUnicast(2, 101)

AnomalyTopics ==
    {"anomaly/gravity", "anomaly/stem_temperature", "anomaly/air_temperature"}

(* what _evaluate_battery returns in this step, the store answering: *)
(* the default without history, else the sleep time it has stored    *)
(* for the sender                                                    *)
RegressionResult(g, sender) ==
    IF store[sender] = <<>> THEN SLEEP_TIME_DEFAULT
    ELSE sleep_times'[g][sender]

(* C28: the Command1 an engine publishes for a data packet has        *)
(* sleep_interval 300 if an evaluation of the packet flagged an       *)
(* anomaly, whatever the regression gave, and the greater of the      *)
(* regression result and 300 if none did.                             *)
C28_AnomalyForcesMinimum ==
    [][\A g \in Gateways :
        HandlesData(g) =>
            LET sender == Head(inbox[g]).payload.sender_address
                new == PublishedNow(g)
                flagged == \E i \in DOMAIN new : new[i].topic \in AnomalyTopics
            IN  \A i \in DOMAIN new :
                    IsCommand1To(new[i], sender) =>
                        new[i].payload.sleep_interval =
                            IF flagged THEN SLEEP_TIME_MIN
                            ELSE IF RegressionResult(g, sender) >= SLEEP_TIME_MIN
                                 THEN RegressionResult(g, sender)
                                 ELSE SLEEP_TIME_MIN]_vars

(* the regression gave 1300 for talker 101, the position was off, and *)
(* the reply that follows the gravity anomaly carries 300             *)
C28_Witness ==
    /\ 101 \in DOMAIN sleep_times[1]
    /\ sleep_times[1][101] = 1300
    /\ Len(published[1]) = 2
    /\ published[1][1].topic = "anomaly/gravity"
    /\ IsCommand1To(published[1][2], 101)
    /\ published[1][2].payload.sleep_interval = 300

(* the evaluation of the kind has run in this step and returned True: *)
(* the evaluations run in the order gravity, stem temperature, air    *)
(* temperature, and one that raises ends the step                     *)
FlaggedNow(g, kind) ==
    LET packet == Head(inbox[g]).payload
        rows == store[packet.sender_address]
        gravity == evaluate_gravity(packet, rows, aggregated_movement[g], {})
        stem == evaluate_stem_temperature(packet, rows,
                                          aggregated_temperature[g], {})
        air == evaluate_air_temperature(packet)
    IN  /\ BatteryVoltageDefined(packet)
        /\ CASE kind = "anomaly/gravity" -> gravity = "anomaly"
              [] kind = "anomaly/stem_temperature" ->
                    gravity # "raise" /\ stem = "anomaly"
              [] kind = "anomaly/air_temperature" ->
                    gravity # "raise" /\ stem # "raise" /\ air = "anomaly"

(* C29: handling a data packet, an engine publishes the packet on the  *)
(* anomaly topic of a kind once if the evaluation of that kind flagged *)
(* and not at all if it did not, before any reply, whether or not the  *)
(* engine responds.                                                    *)
C29_AnomalyPublishedOncePerKind ==
    [][\A g \in Gateways :
        HandlesData(g) =>
            LET packet == Head(inbox[g]).payload
                new == PublishedNow(g)
            IN  /\ \A kind \in AnomalyTopics :
                        Cardinality({i \in DOMAIN new : new[i].topic = kind})
                            = IF FlaggedNow(g, kind) THEN 1 ELSE 0
                /\ \A i \in DOMAIN new :
                        \/ /\ new[i].topic \in AnomalyTopics
                           /\ new[i].payload = packet
                           /\ \A j \in DOMAIN new :
                                    new[j].topic = "command" => i < j
                        \/ /\ new[i].topic = "command"
                           /\ respond[g]]_vars

(* an observer has handled one packet and published it on             *)
(* anomaly/gravity and then on anomaly/air_temperature, and no reply  *)
C29_Witness ==
    /\ ~respond[1]
    /\ alive[1] /\ inbox[1] = <<>>
    /\ Len(published[1]) = 2
    /\ published[1][1].topic = "anomaly/gravity"
    /\ published[1][2].topic = "anomaly/air_temperature"
    /\ published[1][2].payload = published[1][1].payload
    /\ published[1][1].payload.air_temperature >= CRITICAL_TEMPERATURE * 10

(* C30: the movement verdict does not depend on the talker's stored    *)
(* history: whenever an engine that holds a movement baseline handles  *)
(* a data packet whose derivative lies more than 3 standard deviations *)
(* off that baseline, it publishes the packet on anomaly/gravity,      *)
(* whatever the store holds for the talker.                            *)
C30_MovementRaisesGravityAnomaly ==
    [][\A g \in Gateways :
        (/\ HandlesData(g)
         /\ aggregated_movement[g] # NoBaseline
         /\ evaluate_movement(Head(inbox[g]).payload, aggregated_movement[g])
                = "anomaly")
        => \E i \in DOMAIN PublishedNow(g) :
                /\ PublishedNow(g)[i].topic = "anomaly/gravity"
                /\ PublishedNow(g)[i].payload = Head(inbox[g]).payload]_vars

(* C31: an engine that has received no global/movement publishes a    *)
(* gravity anomaly only for a position off the talker's history, one  *)
(* that has received no global/temperature publishes no stem          *)
(* temperature anomaly, and with neither the sleep_interval of the    *)
(* reply is 300 for a position or air temperature anomaly and the     *)
(* regression result clamped from below otherwise.                    *)
C31_NoBaselineNoAnomaly ==
    [][\A g \in Gateways :
        HandlesData(g) =>
            LET packet == Head(inbox[g]).payload
                sender == packet.sender_address
                new == PublishedNow(g)
                off == \/ /\ Len(store[sender]) >= 2
                          /\ evaluate_position(packet, store[sender]) = "anomaly"
                       \/ packet.air_temperature >= CRITICAL_TEMPERATURE * 10
            IN  /\ aggregated_movement[g] = NoBaseline =>
                    \A i \in DOMAIN new :
                        new[i].topic = "anomaly/gravity" =>
                            /\ Len(store[sender]) >= 2
                            /\ evaluate_position(packet, store[sender])
                                    = "anomaly"
                /\ aggregated_temperature[g] = NoBaseline =>
                    \A i \in DOMAIN new :
                        new[i].topic # "anomaly/stem_temperature"
                /\ (/\ aggregated_movement[g] = NoBaseline
                    /\ aggregated_temperature[g] = NoBaseline) =>
                    \A i \in DOMAIN new :
                        IsCommand1To(new[i], sender) =>
                            new[i].payload.sleep_interval =
                                IF off THEN SLEEP_TIME_MIN
                                ELSE Max(RegressionResult(g, sender),
                                         SLEEP_TIME_MIN)]_vars

(* without any baseline, an engine with history for talker 101 has    *)
(* handled a packet with the derivative and the heated probe changed  *)
(* and replied with the regression result, above the minimum          *)
C31_Witness ==
    /\ aggregated_movement[1] = NoBaseline
    /\ aggregated_temperature[1] = NoBaseline
    /\ Len(handled[1]) = 2
    /\ handled[1][1].payload = Moved(0, 1)
    /\ handled[1][2].payload = WarmStemRev31(MULTICAST, 101)
    /\ Len(published[1]) = 2
    /\ \A i \in 1..2 :
            /\ IsCommand1To(published[1][i], 101)
            /\ published[1][i].payload.sleep_interval > SLEEP_TIME_MIN

(* C32: with fewer than two stored gravity points for the talker the  *)
(* position evaluation flags nothing and the evaluation of the packet *)
(* completes: the engine goes on and, if it responds, publishes its   *)
(* Command1 to the sender (steps in which the stem temperature        *)
(* evaluation raises are left aside).                                 *)
C32_ShortHistoryNoPositionAnomaly ==
    [][\A g \in Gateways :
        (/\ HandlesData(g)
         /\ Len(store[Head(inbox[g]).payload.sender_address]) < 2
         /\ evaluate_stem_temperature(Head(inbox[g]).payload,
                store[Head(inbox[g]).payload.sender_address],
                aggregated_temperature[g], {}) # "raise") =>
            LET packet == Head(inbox[g]).payload
                new == PublishedNow(g)
            IN  /\ evaluate_movement(packet, aggregated_movement[g]) = "normal"
                    => \A i \in DOMAIN new : new[i].topic # "anomaly/gravity"
                /\ alive'[g]
                /\ respond[g] =>
                        \E i \in DOMAIN new :
                            IsCommand1To(new[i], packet.sender_address)]_vars

(* the payload of the global message of a topic engine g handled last, *)
(* {} if it has handled none                                           *)
LastSeen(g, topic) ==
    LET seen == {i \in DOMAIN handled[g] : handled[g][i].topic = topic}
    IN  IF seen = {} THEN NoBaseline
        ELSE handled[g][CHOOSE i \in seen : \A j \in seen : j <= i].payload

(* C33: the movement baseline of an engine is the payload of the      *)
(* global/movement message it received last and the temperature       *)
(* baseline that of the last global/temperature message; handling a   *)
(* global message changes the baseline of its kind only: not the      *)
(* other baseline, connected_clients, time_slot or sleep_times, and   *)
(* nothing is published, requested or written.                        *)
C33_LastSeenBaseline ==
    /\ [](\A g \in Gateways :
            /\ aggregated_movement[g] = LastSeen(g, "global/movement")
            /\ aggregated_temperature[g] = LastSeen(g, "global/temperature"))
    /\ [][\A g \in Gateways :
            (/\ alive[g] /\ EngineStep(g)
             /\ Head(inbox[g]).topic \in {"global/movement",
                                          "global/temperature"}) =>
                /\ Head(inbox[g]).topic = "global/movement" =>
                        /\ aggregated_movement'[g] = Head(inbox[g]).payload
                        /\ aggregated_temperature'[g] = aggregated_temperature[g]
                /\ Head(inbox[g]).topic = "global/temperature" =>
                        /\ aggregated_temperature'[g] = Head(inbox[g]).payload
                        /\ aggregated_movement'[g] = aggregated_movement[g]
                /\ UNCHANGED <<connected_clients, time_slot, sleep_times,
                               published, requests, store, light_store,
                               alive>>]_vars

(* engine 1, holding talker 101 and a sleep time for it, has handled  *)
(* two global/movement messages with different payloads and a         *)
(* global/temperature message after them, and holds the second        *)
(* movement payload                                                   *)
C33_Witness ==
    /\ 101 \in DOMAIN connected_clients[1]
    /\ 101 \in DOMAIN sleep_times[1]
    /\ \E i, j, k \in DOMAIN handled[1] :
            /\ i < j /\ j < k
            /\ handled[1][i].topic = "global/movement"
            /\ handled[1][j].topic = "global/movement"
            /\ handled[1][k].topic = "global/temperature"
            /\ handled[1][i].payload # handled[1][j].payload
            /\ aggregated_movement[1] = handled[1][j].payload
            /\ aggregated_temperature[1] = handled[1][k].payload

(* the aggregator runs a cycle in this step *)
CycleStep == aggregator'.cycles = aggregator.cycles + 1

(* what the aggregator publishes on a topic in this step *)
SentNow(topic) ==
    LET new == SubSeq(inbox'[1], Len(inbox[1]) + 1, Len(inbox'[1]))
    IN  {new[i].payload : i \in {j \in DOMAIN new : new[j].topic = topic}}

(* C34: a cycle whose movement query is answered publishes            *)
(* global/movement, with the mean and the stdev of every axis, if and *)
(* only if the window holds at least one point, and with exactly one  *)
(* point the aggregator goes on to the temperature aggregation and    *)
(* stays running for the next cycle.                                  *)
C34_MovementPublishedFromOnePoint ==
    [][CycleStep =>
        LET rows == RowsOf(store, DOMAIN store)
            answered == aggregator'.movement # "skipped" \/ rows = <<>>
        IN  /\ SentNow("global/movement") # {} => Len(rows) >= 1
            /\ (answered /\ Len(rows) >= 1) =>
                    \E data \in SentNow("global/movement") :
                        DOMAIN data = {"mean_x", "stdev_x", "mean_y",
                                       "stdev_y", "mean_z", "stdev_z"}
            /\ (answered /\ Len(rows) = 1) =>
                    /\ aggregator'.temperature # "none"
                    /\ aggregator'.alive]_vars

(* C35: a cycle that reaches the temperature aggregation publishes    *)
(* nothing on global/temperature over a window of fewer than two rows *)
(* and the aggregator stays running for the next cycle; over two or   *)
(* more rows, the query answered, it publishes the two stdevs.        *)
C35_TemperatureSkippedUnderTwoRows ==
    [][(CycleStep /\ aggregator'.movement # "raised") =>
        LET rows == RowsOf(store, DOMAIN store)
        IN  /\ Len(rows) < 2 =>
                    /\ SentNow("global/temperature") = {}
                    /\ aggregator'.alive
            /\ (Len(rows) >= 2 /\ aggregator'.temperature # "skipped") =>
                    \E data \in SentNow("global/temperature") :
                        DOMAIN data = {"stdev_delta_cold",
                                       "stdev_delta_hot"}]_vars

(* the fields of engine g and of its policy *)
Fields(g) ==
    <<connected_clients[g], time_slot[g], sleep_times[g],
      aggregated_movement[g], aggregated_temperature[g]>>

C37_SleepTimesHoldsLastDecided ==
    [][\A g \in Gateways :
        HandlesData(g) =>
            LET sender == Head(inbox[g]).payload.sender_address
                new == PublishedNow(g)
            IN  \A i \in DOMAIN new :
                    (/\ IsCommand1To(new[i], sender)
                     /\ sender \in DOMAIN sleep_times'[g]) =>
                        /\ sleep_times'[g][sender]
                                = new[i].payload.sleep_interval
                        /\ sleep_times'[g][sender] >= SLEEP_TIME_MIN]_vars

C39_Command1FitsTheWire ==
    [][\A g \in Gateways :
        (HandlesData(g) /\ respond[g]) =>
            /\ alive'[g]
            /\ \E i \in DOMAIN PublishedNow(g) :
                    /\ IsCommand1To(PublishedNow(g)[i],
                                    Head(inbox[g]).payload.sender_address)
                    /\ PublishedNow(g)[i].payload.sleep_interval \in 0..65535
                    /\ PublishedNow(g)[i].payload.heating \in 0..65535]_vars

(* C40: the address generate_tt_address gives for a MAC is below 2^32 *)
(* and packs into the four bytes of an address field.                 *)
C40_AddressFitsFourBytes ==
    evaluation.stage = "done" =>
        /\ evaluation.address[2] <= 42949
        /\ evaluation.address[2] = 42949 => evaluation.address[1] < 67296
        /\ evaluation.packed

====
